---- MODULE Spec2Model ----
(***************************************************************************)
(* The ledger state engine of src/src/blockchain/mod.rs (BlockChain):      *)
(* the key-value store with its merge operators, the in-memory indices,    *)
(* insert_block, update_ledger, the confirmation rule and the queries.     *)
(*                                                                         *)
(* Hashes (H256) are integers: only equality and order of hashes are used  *)
(* by the code.  Option<T> is a sequence: <<>> is None, <<x>> is Some(x).  *)
(* f32 values are fixed-point integers with FP units per 1.0.              *)
(***************************************************************************)
EXTENDS Integers, Sequences, FiniteSets, TLC

\* ---------------------------------------------------------------- bounds
VoterChains == 2
MaxProposers == 2
MaxVoters == 4
MaxTransactions == 2
MaxBlocks == 5
MaxConcurrentBlocks == 4
MaxRefs == 1
MaxThreads == 2
MaxTimestamp == 2
MaxOperandLen == 2
MaxVoteLevel == 1
MaxMergeHash == 3
MaxRuleChains == 5
MaxRuleBlocks == 3

\* ----------------------------------------------------------- configuration
\* config.voter_chains, config.proposer_genesis, config.voter_genesis
voter_chains == VoterChains
Chains == 0..(voter_chains - 1)
proposer_genesis == 0
voter_genesis == [c \in Chains |-> MaxProposers + 1 + c]

\* the hashes of the blocks that can be delivered, by kind of content
ProposerHashes == 1..MaxProposers
VoterHashes == (MaxProposers + voter_chains + 1)..(MaxProposers + voter_chains + MaxVoters)
TransactionHashes ==
    (MaxProposers + voter_chains + MaxVoters + 1)..
        (MaxProposers + voter_chains + MaxVoters + MaxTransactions)

\* header.timestamp of the blocks delivered
Timestamps == 0..MaxTimestamp

\* H256::default()
H256_default == 0 - 1

\* --------------------------------------------------------------- helpers
None == <<>>
Some(x) == <<x>>
is_some(o) == o /= <<>>
unwrap(o) == o[1]

Range(s) == {s[i] : i \in 1..Len(s)}
contains(s, x) == \E i \in 1..Len(s) : s[i] = x

RECURSIVE SeqSum(_)
SeqSum(s) == IF s = <<>> THEN 0 ELSE s[1] + SeqSum(Tail(s))

RECURSIVE Concat(_)
Concat(ss) == IF ss = <<>> THEN <<>> ELSE ss[1] \o Concat(Tail(ss))

Reverse(s) == [i \in 1..Len(s) |-> s[Len(s) + 1 - i]]

\* all sequences without repetition of elements of S, of length at most n
RECURSIVE DistinctSeqs(_, _)
DistinctSeqs(S, n) ==
    IF n = 0 THEN {<<>>}
    ELSE {<<>>} \cup UNION {{<<x>> \o t : t \in DistinctSeqs(S \ {x}, n - 1)} : x \in S}

\* ------------------------------------------------------ the store (rocksdb)
PROPOSER_NODE_LEVEL_CF == "PROPOSER_NODE_LEVEL"
VOTER_NODE_LEVEL_CF == "VOTER_NODE_LEVEL"
VOTER_NODE_CHAIN_CF == "VOTER_NODE_CHAIN"
VOTER_TREE_LEVEL_COUNT_CF == "VOTER_TREE_LEVEL_COUNT_CF"
PROPOSER_TREE_LEVEL_CF == "PROPOSER_TREE_LEVEL"
VOTER_NODE_VOTED_LEVEL_CF == "VOTER_NODE_VOTED_LEVEL"
PROPOSER_NODE_VOTE_CF == "PROPOSER_NODE_VOTE"
PROPOSER_LEADER_SEQUENCE_CF == "PROPOSER_LEADER_SEQUENCE"
PROPOSER_LEDGER_ORDER_CF == "PROPOSER_LEDGER_ORDER"
PROPOSER_VOTE_COUNT_CF == "PROPOSER_VOTE_COUNT"
PARENT_NEIGHBOR_CF == "GRAPH_PARENT_NEIGHBOR"
VOTE_NEIGHBOR_CF == "GRAPH_VOTE_NEIGHBOR"
VOTER_PARENT_NEIGHBOR_CF == "GRAPH_VOTER_PARENT_NEIGHBOR"
TRANSACTION_REF_NEIGHBOR_CF == "GRAPH_TRANSACTION_REF_NEIGHBOR"
PROPOSER_REF_NEIGHBOR_CF == "GRAPH_PROPOSER_REF_NEIGHBOR"

ColumnFamilies ==
    {PROPOSER_NODE_LEVEL_CF, VOTER_NODE_LEVEL_CF, VOTER_NODE_CHAIN_CF,
     VOTER_TREE_LEVEL_COUNT_CF, PROPOSER_TREE_LEVEL_CF, VOTER_NODE_VOTED_LEVEL_CF,
     PROPOSER_NODE_VOTE_CF, PROPOSER_LEADER_SEQUENCE_CF, PROPOSER_LEDGER_ORDER_CF,
     PROPOSER_VOTE_COUNT_CF, PARENT_NEIGHBOR_CF, VOTE_NEIGHBOR_CF,
     VOTER_PARENT_NEIGHBOR_CF, TRANSACTION_REF_NEIGHBOR_CF, PROPOSER_REF_NEIGHBOR_CF}

\* a column family is a function from its present keys to their values
EmptyCf == [k \in {} |-> 0]
MapPut(f, k, v) == [x \in (DOMAIN f) \cup {k} |-> IF x = k THEN v ELSE f[x]]
MapRemove(f, k) == [x \in (DOMAIN f) \ {k} |-> f[x]]

\* db.get_pinned_cf(cf, key): Option of the stored value
get_pinned_cf(d, cf, key) == IF key \in DOMAIN d[cf] THEN Some(d[cf][key]) ELSE None

\* the operations of a WriteBatch
put_cf(cf, key, value) == [op |-> "put", cf |-> cf, key |-> key, value |-> value]
merge_cf(cf, key, value) == [op |-> "merge", cf |-> cf, key |-> key, value |-> value]
delete_cf(cf, key) == [op |-> "delete", cf |-> cf, key |-> key, value |-> 0]

\* ------------------------------------------------------- merge operators
\* Vec::swap_remove(p): the last element takes the place of the removed one
swap_remove(v, p) ==
    IF p = Len(v) THEN SubSeq(v, 1, Len(v) - 1)
    ELSE SubSeq([v EXCEPT ![p] = v[Len(v)]], 1, Len(v) - 1)

\* position of the first element equal to x; 0 when there is none
position(v, x) ==
    IF contains(v, x) THEN CHOOSE i \in 1..Len(v) : v[i] = x /\ \A j \in 1..(i - 1) : v[j] /= x
    ELSE 0

\* one (bool, u16, u64) operation of the vote-edit merge applied to the list
vote_vec_operation(existing, operation) ==
    IF operation[1]
    THEN IF contains(existing, <<operation[2], operation[3]>>) THEN existing
         ELSE Append(existing, <<operation[2], operation[3]>>)
    ELSE IF position(existing, <<operation[2], operation[3]>>) = 0
         THEN existing \* unreachable!() in the code, see vote_vec_unreachable
         ELSE swap_remove(existing, position(existing, <<operation[2], operation[3]>>))

RECURSIVE vote_vec_operations(_, _)
vote_vec_operations(existing, operations) ==
    IF operations = <<>> THEN existing
    ELSE vote_vec_operations(vote_vec_operation(existing, operations[1]), Tail(operations))

\* the full merge of one operand (a Vec of operations) into the stored value
vote_vec_full_merge(existing_val, op) ==
    vote_vec_operations(IF is_some(existing_val) THEN unwrap(existing_val) ELSE <<>>, op)

\* TRUE when the full merge reaches its unreachable!() branch
RECURSIVE vote_vec_unreachable(_, _)
vote_vec_unreachable(existing, operations) ==
    IF operations = <<>> THEN FALSE
    ELSE \/ (~operations[1][1]
             /\ position(existing, <<operations[1][2], operations[1][3]>>) = 0)
         \/ vote_vec_unreachable(vote_vec_operation(existing, operations[1]),
                                 Tail(operations))

\* a variant of h256_vec_append: every hash of the operand is pushed
h256_vec_append_all(existing, new_hashes) == existing \o new_hashes

RECURSIVE h256_vec_append(_, _)
h256_vec_append(existing, new_hashes) ==
    IF new_hashes = <<>> THEN existing
    ELSE h256_vec_append(
             IF contains(existing, new_hashes[1]) THEN existing
             ELSE Append(existing, new_hashes[1]),
             Tail(new_hashes))

h256_vec_append_merge(existing_val, op) ==
    h256_vec_append(IF is_some(existing_val) THEN unwrap(existing_val) ELSE <<>>, op)

u64_plus_merge(existing_val, op) ==
    (IF is_some(existing_val) THEN unwrap(existing_val) ELSE 0) + op

\* the merge operator registered for each column family in open()
merge_operator(cf, existing_val, op) ==
    IF cf = PROPOSER_NODE_VOTE_CF THEN vote_vec_full_merge(existing_val, op)
    ELSE IF cf \in {VOTER_TREE_LEVEL_COUNT_CF, PROPOSER_VOTE_COUNT_CF}
    THEN u64_plus_merge(existing_val, op)
    ELSE h256_vec_append_merge(existing_val, op)

\* one operation of a batch applied to the store
apply_op(d, o) ==
    IF o.op = "put" THEN [d EXCEPT ![o.cf] = MapPut(@, o.key, o.value)]
    ELSE IF o.op = "delete" THEN [d EXCEPT ![o.cf] = MapRemove(@, o.key)]
    ELSE [d EXCEPT ![o.cf] =
             MapPut(@, o.key, merge_operator(o.cf, get_pinned_cf(d, o.cf, o.key), o.value))]

\* db.write(wb): the operations of the batch, in order, as one atomic commit
RECURSIVE write(_, _)
write(d, wb) == IF wb = <<>> THEN d ELSE write(apply_op(d, wb[1]), Tail(wb))

\* TRUE when committing the batch makes a vote-edit merge reach unreachable!()
RECURSIVE write_unreachable(_, _)
write_unreachable(d, wb) ==
    IF wb = <<>> THEN FALSE
    ELSE \/ /\ wb[1].op = "merge"
            /\ wb[1].cf = PROPOSER_NODE_VOTE_CF
            /\ vote_vec_unreachable(
                   IF wb[1].key \in DOMAIN d[PROPOSER_NODE_VOTE_CF]
                   THEN d[PROPOSER_NODE_VOTE_CF][wb[1].key] ELSE <<>>,
                   wb[1].value)
         \/ write_unreachable(apply_op(d, wb[1]), Tail(wb))

\* ------------------------------------------------------------------ state
VARIABLES
    db,                      \* the store: column family -> (key -> value)
    proposer_best_level,     \* Mutex<u64>
    voter_best,              \* Vec<Mutex<(H256, u64)>>
    unreferred_transactions, \* Mutex<HashMap<H256, u128>>
    unreferred_proposers,    \* Mutex<HashMap<H256, u128>>
    unconfirmed_proposers,   \* Mutex<HashSet<H256>>
    proposer_ledger_tip,     \* Mutex<u64>
    voter_ledger_tips,       \* Mutex<Vec<H256>>
    aborted,                 \* the process hit a panic (unwrap, unreachable!)
    inflight,                \* the insert_block calls that have not returned
    last_call,               \* the top-level operation that returned last
    ret,                     \* what update_ledger returned last: <<added, removed>>
    repeated,                \* the last two calls that returned were update_ledger
    vote_wb,                 \* the vote edits the last update_ledger committed
    leader_call,             \* the last proposer_leader evaluation made on its own
    walk,                    \* the call that runs its loops one iteration at a time
    io_error,                \* the insert_block calls that returned a storage error
    leaders_read,            \* what proposer_leaders() read last: the tip and the leaders
    threads                  \* the guards each thread holds and is about to take or drop

vars == <<db, proposer_best_level, voter_best, unreferred_transactions,
          unreferred_proposers, unconfirmed_proposers, proposer_ledger_tip,
          voter_ledger_tips, aborted, inflight, last_call, ret, repeated, vote_wb,
          leader_call, walk, io_error, leaders_read,
          threads>>

\* the threads that call into the chain: thread 1 is the ledger updater
MaxGuardThreads == 3
GuardThreads == 1..MaxGuardThreads

\* a thread outside every call holds no guard
idle == [fn |-> "idle", rest |-> <<>>, held |-> {}]
IdleThreads == [t \in GuardThreads |-> idle]

\* ---------------------------------------------------------------- open, new
\* the in-memory fields as open() leaves them
open_voter_best == [c \in Chains |-> <<H256_default, 0>>]
open_voter_ledger_tips == [c \in Chains |-> H256_default]

\* a variant of new_voter_genesis_ops: every genesis vote is recorded as a
\* vote of chain 0
new_voter_genesis_ops_chain0(chain_num) ==
    << put_cf(PARENT_NEIGHBOR_CF, voter_genesis[chain_num], proposer_genesis),
       merge_cf(VOTE_NEIGHBOR_CF, voter_genesis[chain_num], <<proposer_genesis>>),
       merge_cf(PROPOSER_VOTE_COUNT_CF, proposer_genesis, 1),
       merge_cf(PROPOSER_NODE_VOTE_CF, proposer_genesis, <<<<TRUE, 0, 0>>>>),
       put_cf(VOTER_NODE_LEVEL_CF, voter_genesis[chain_num], 0),
       put_cf(VOTER_NODE_VOTED_LEVEL_CF, voter_genesis[chain_num], 0),
       put_cf(VOTER_NODE_CHAIN_CF, voter_genesis[chain_num], chain_num),
       merge_cf(VOTER_TREE_LEVEL_COUNT_CF, <<chain_num, 0>>, 1) >>

\* the genesis operations of one voter chain, in the order new() batches them
new_voter_genesis_ops(chain_num) ==
    << put_cf(PARENT_NEIGHBOR_CF, voter_genesis[chain_num], proposer_genesis),
       merge_cf(VOTE_NEIGHBOR_CF, voter_genesis[chain_num], <<proposer_genesis>>),
       merge_cf(PROPOSER_VOTE_COUNT_CF, proposer_genesis, 1),
       merge_cf(PROPOSER_NODE_VOTE_CF, proposer_genesis, <<<<TRUE, chain_num, 0>>>>),
       put_cf(VOTER_NODE_LEVEL_CF, voter_genesis[chain_num], 0),
       put_cf(VOTER_NODE_VOTED_LEVEL_CF, voter_genesis[chain_num], 0),
       put_cf(VOTER_NODE_CHAIN_CF, voter_genesis[chain_num], chain_num),
       merge_cf(VOTER_TREE_LEVEL_COUNT_CF, <<chain_num, 0>>, 1) >>

\* the write batch of new()
new_batch ==
    << put_cf(PROPOSER_NODE_LEVEL_CF, proposer_genesis, 0),
       merge_cf(PROPOSER_TREE_LEVEL_CF, 0, <<proposer_genesis>>),
       put_cf(PROPOSER_LEADER_SEQUENCE_CF, 0, proposer_genesis),
       put_cf(PROPOSER_LEDGER_ORDER_CF, 0, <<proposer_genesis>>),
       put_cf(PROPOSER_REF_NEIGHBOR_CF, proposer_genesis, <<>>),
       put_cf(TRANSACTION_REF_NEIGHBOR_CF, proposer_genesis, <<>>) >>
    \o Concat([i \in 1..voter_chains |-> new_voter_genesis_ops(i - 1)])

\* the in-memory fields new() sets after open()
new_unreferred_proposers == MapPut(EmptyCf, proposer_genesis, 0)
new_voter_best == [c \in Chains |-> <<voter_genesis[c], open_voter_best[c][2]>>]
new_voter_ledger_tips == [c \in Chains |-> voter_genesis[c]]

Init ==
    /\ db = write([cf \in ColumnFamilies |-> EmptyCf], new_batch)
    /\ proposer_best_level = 0
    /\ voter_best = new_voter_best
    /\ unreferred_transactions = EmptyCf
    /\ unreferred_proposers = new_unreferred_proposers
    /\ unconfirmed_proposers = {}
    /\ proposer_ledger_tip = 0
    /\ voter_ledger_tips = new_voter_ledger_tips
    /\ aborted = FALSE
    /\ inflight = {}
    /\ last_call = "new"
    /\ ret = <<<<>>, <<>>>>
    /\ repeated = FALSE
    /\ vote_wb = <<>>
    /\ leader_call = <<>>
    /\ walk = <<>>
    /\ io_error = <<>>
    /\ leaders_read = <<>>
    /\ threads = IdleThreads

\* ------------------------------------------------------------ insert_block
\* a block as insert_block reads it: block.hash(), header.parent, header.timestamp
\* and the content (the fields of the other variants are empty)
Block(hash, parent, timestamp, content, proposer_refs, transaction_refs, voter_parent, votes, chain_number) ==
    [hash |-> hash, parent |-> parent, timestamp |-> timestamp, content |-> content,
     proposer_refs |-> proposer_refs, transaction_refs |-> transaction_refs,
     voter_parent |-> voter_parent, votes |-> votes, chain_number |-> chain_number]

RECURSIVE MapRemoveAll(_, _)
MapRemoveAll(f, keys) ==
    IF keys = <<>> THEN f ELSE MapRemoveAll(MapRemove(f, keys[1]), Tail(keys))

\* a variant of proposer_self_level: the level of the parent, not one more
proposer_self_level_of_parent(d, block) ==
    unwrap(get_pinned_cf(d, PROPOSER_NODE_LEVEL_CF, block.parent))

\* Content::Proposer: the level of the block
proposer_self_level(d, block) ==
    unwrap(get_pinned_cf(d, PROPOSER_NODE_LEVEL_CF, block.parent)) + 1

\* a variant of proposer_batch: the level index is read, extended and put
\* back, instead of merged
proposer_batch_read_modify_write(d, block) ==
    << put_cf(PARENT_NEIGHBOR_CF, block.hash, block.parent),
       put_cf(PROPOSER_REF_NEIGHBOR_CF, block.hash, <<block.parent>> \o block.proposer_refs),
       put_cf(TRANSACTION_REF_NEIGHBOR_CF, block.hash, block.transaction_refs),
       put_cf(PROPOSER_NODE_LEVEL_CF, block.hash, proposer_self_level(d, block)),
       put_cf(PROPOSER_TREE_LEVEL_CF, proposer_self_level(d, block),
              h256_vec_append_merge(
                  get_pinned_cf(d, PROPOSER_TREE_LEVEL_CF, proposer_self_level(d, block)),
                  <<block.hash>>)) >>

\* Content::Proposer: the write batch
proposer_batch(d, block) ==
    << put_cf(PARENT_NEIGHBOR_CF, block.hash, block.parent),
       put_cf(PROPOSER_REF_NEIGHBOR_CF, block.hash, <<block.parent>> \o block.proposer_refs),
       put_cf(TRANSACTION_REF_NEIGHBOR_CF, block.hash, block.transaction_refs),
       put_cf(PROPOSER_NODE_LEVEL_CF, block.hash, proposer_self_level(d, block)),
       merge_cf(PROPOSER_TREE_LEVEL_CF, proposer_self_level(d, block), <<block.hash>>) >>

\* a variant of proposer_unreferred_proposers: the parent stays in the set
proposer_unreferred_proposers_keeps_parent(unreferred, block) ==
    MapRemoveAll(MapPut(unreferred, block.hash, block.timestamp), block.proposer_refs)

\* Content::Proposer: the unreferred proposers after the insert of the block
\* (before the commit) and the removal of what it refers to (after the commit)
proposer_unreferred_proposers(unreferred, block) ==
    MapRemove(MapRemoveAll(MapPut(unreferred, block.hash, block.timestamp),
                           block.proposer_refs),
              block.parent)

\* a variant of proposer_unreferred_transactions: nothing is removed
proposer_unreferred_transactions_keeps_all(unreferred, block) == unreferred

\* Content::Proposer: the unreferred transactions after the removal of the
\* transaction_refs of the block (after the commit)
proposer_unreferred_transactions(unreferred, block) ==
    MapRemoveAll(unreferred, block.transaction_refs)

\* a variant of proposer_best_promote: the level of the committed block is
\* taken without the comparison
proposer_best_promote_unconditional(best, self_level) == self_level

\* Content::Proposer: the promotion of the best level after the commit
proposer_best_promote(best, self_level) == IF self_level > best THEN self_level ELSE best

\* Content::Voter: level and chain number, both taken from the voter parent
voter_self_level(d, block) ==
    unwrap(get_pinned_cf(d, VOTER_NODE_LEVEL_CF, block.voter_parent)) + 1
\* a variant of voter_self_chain: the chain number the block itself carries
voter_self_chain_of_block(d, block) == block.chain_number

voter_self_chain(d, block) ==
    unwrap(get_pinned_cf(d, VOTER_NODE_CHAIN_CF, block.voter_parent))

\* a variant of voter_batch: the vote counts are read, incremented and put
\* back, instead of merged
voter_batch_read_modify_write(d, block) ==
    << put_cf(PARENT_NEIGHBOR_CF, block.hash, block.parent),
       put_cf(VOTER_PARENT_NEIGHBOR_CF, block.hash, block.voter_parent),
       put_cf(VOTER_NODE_LEVEL_CF, block.hash, voter_self_level(d, block)),
       put_cf(VOTER_NODE_CHAIN_CF, block.hash, voter_self_chain(d, block)),
       merge_cf(VOTER_TREE_LEVEL_COUNT_CF,
                <<voter_self_chain(d, block), voter_self_level(d, block)>>, 1) >>
    \o [i \in 1..Len(block.votes) |->
           put_cf(PROPOSER_VOTE_COUNT_CF, block.votes[i],
                  u64_plus_merge(get_pinned_cf(d, PROPOSER_VOTE_COUNT_CF, block.votes[i]), 1))]
    \o << put_cf(VOTE_NEIGHBOR_CF, block.hash, block.votes),
          put_cf(VOTER_NODE_VOTED_LEVEL_CF, block.hash,
                 unwrap(get_pinned_cf(d, PROPOSER_NODE_LEVEL_CF, block.parent))) >>

\* a variant of voter_batch: the votes of the block are recorded as main
\* chain votes at once
voter_batch_records_votes(d, block) ==
    << put_cf(PARENT_NEIGHBOR_CF, block.hash, block.parent),
       put_cf(VOTER_PARENT_NEIGHBOR_CF, block.hash, block.voter_parent),
       put_cf(VOTER_NODE_LEVEL_CF, block.hash, voter_self_level(d, block)),
       put_cf(VOTER_NODE_CHAIN_CF, block.hash, voter_self_chain(d, block)),
       merge_cf(VOTER_TREE_LEVEL_COUNT_CF,
                <<voter_self_chain(d, block), voter_self_level(d, block)>>, 1) >>
    \o [i \in 1..Len(block.votes) |-> merge_cf(PROPOSER_VOTE_COUNT_CF, block.votes[i], 1)]
    \o [i \in 1..Len(block.votes) |->
           merge_cf(PROPOSER_NODE_VOTE_CF, block.votes[i],
                    <<<<TRUE, voter_self_chain(d, block), voter_self_level(d, block)>>>>)]
    \o << put_cf(VOTE_NEIGHBOR_CF, block.hash, block.votes),
          put_cf(VOTER_NODE_VOTED_LEVEL_CF, block.hash,
                 unwrap(get_pinned_cf(d, PROPOSER_NODE_LEVEL_CF, block.parent))) >>

\* Content::Voter: the write batch
voter_batch(d, block) ==
    << put_cf(PARENT_NEIGHBOR_CF, block.hash, block.parent),
       put_cf(VOTER_PARENT_NEIGHBOR_CF, block.hash, block.voter_parent),
       put_cf(VOTER_NODE_LEVEL_CF, block.hash, voter_self_level(d, block)),
       put_cf(VOTER_NODE_CHAIN_CF, block.hash, voter_self_chain(d, block)),
       merge_cf(VOTER_TREE_LEVEL_COUNT_CF,
                <<voter_self_chain(d, block), voter_self_level(d, block)>>, 1) >>
    \o [i \in 1..Len(block.votes) |-> merge_cf(PROPOSER_VOTE_COUNT_CF, block.votes[i], 1)]
    \o << put_cf(VOTE_NEIGHBOR_CF, block.hash, block.votes),
          put_cf(VOTER_NODE_VOTED_LEVEL_CF, block.hash,
                 unwrap(get_pinned_cf(d, PROPOSER_NODE_LEVEL_CF, block.parent))) >>

\* a variant of voter_best_update: a block of equal level replaces the tip
voter_best_update_on_equal(best, block_hash, self_level) ==
    IF self_level >= best[2] THEN <<block_hash, self_level>> ELSE best

\* Content::Voter: the best tip of the chain after the commit
voter_best_update(best, block_hash, self_level) ==
    IF self_level > best[2] THEN <<block_hash, self_level>> ELSE best

\* Content::Transaction: the write batch
transaction_batch(d, block) == << put_cf(PARENT_NEIGHBOR_CF, block.hash, block.parent) >>

\* ---- the blocks the validator can deliver in the current state
contains_proposer(d, h) == h \in DOMAIN d[PROPOSER_NODE_LEVEL_CF]
contains_voter(d, h) == h \in DOMAIN d[VOTER_NODE_LEVEL_CF]
contains_transaction(d, h) == h \in DOMAIN d[PARENT_NEIGHBOR_CF]

StoredProposers(d) == DOMAIN d[PROPOSER_NODE_LEVEL_CF]
StoredVoters(d) == DOMAIN d[VOTER_NODE_LEVEL_CF]
StoredTransactions(d) == {h \in TransactionHashes : contains_transaction(d, h)}

\* one proposer of each level lo+1..hi, in ascending level order: the vote list
\* of a validated voter block (what unvoted_proposer offers level by level)
RECURSIVE VoteLists(_, _, _)
VoteLists(d, lo, hi) ==
    IF lo >= hi THEN {<<>>}
    ELSE {<<p>> \o rest : p \in Range(d[PROPOSER_TREE_LEVEL_CF][lo + 1]),
                          rest \in VoteLists(d, lo + 1, hi)}

\* the number of blocks delivered so far (the voter genesis blocks have a
\* parent link, the proposer genesis block has none)
NumInserted(d) == Cardinality(DOMAIN d[PARENT_NEIGHBOR_CF]) - voter_chains

\* block.hash(): no order of voter or transaction hashes is ever read, so the
\* next block of these kinds takes the least free hash; proposer hashes are
\* compared by the leader election and take any free hash
LeastOf(S) == {x \in S : \A y \in S : x <= y}
FreshProposerHashes(d, taken) ==
    {x \in ProposerHashes \ taken : ~contains_proposer(d, x)}
FreshVoterHashes(d, taken) ==
    LeastOf({x \in VoterHashes \ taken : ~contains_voter(d, x)})
FreshTransactionHashes(d, taken) ==
    LeastOf({x \in TransactionHashes \ taken : ~contains_transaction(d, x)})

\* proposer_refs: stored proposer blocks other than the parent (the parent is
\* always the first ref) and the genesis block; transaction_refs: stored
\* transaction blocks
ProposerBlocksOn(d, TS, h, parent) ==
    {Block(h, parent, ts, "Proposer", prefs, trefs, H256_default, <<>>, 0) :
        ts \in TS,
        prefs \in DistinctSeqs(StoredProposers(d) \ {parent, proposer_genesis}, MaxRefs),
        trefs \in DistinctSeqs(StoredTransactions(d), MaxRefs)}

ProposerBlocks(d, taken, TS) ==
    UNION {ProposerBlocksOn(d, TS, h, parent) :
              h \in FreshProposerHashes(d, taken), parent \in StoredProposers(d)}

VoterBlocksOn(d, h, voter_parent, parent) ==
    {Block(h, parent, 0, "Voter", <<>>, <<>>, voter_parent, votes, chain_number) :
        chain_number \in Chains,
        votes \in VoteLists(d, d[VOTER_NODE_VOTED_LEVEL_CF][voter_parent],
                            d[PROPOSER_NODE_LEVEL_CF][parent])}

\* header.parent of a voter block is read only through its level: the block
\* names the first proposer of a level that its voter parent has not passed
VoterProposerParents(d, voter_parent) ==
    {d[PROPOSER_TREE_LEVEL_CF][l][1] :
        l \in {x \in DOMAIN d[PROPOSER_TREE_LEVEL_CF] :
                   x >= d[VOTER_NODE_VOTED_LEVEL_CF][voter_parent]}}

VoterBlocks(d, taken) ==
    UNION {UNION {VoterBlocksOn(d, h, voter_parent, parent) :
                     h \in FreshVoterHashes(d, taken),
                     parent \in VoterProposerParents(d, voter_parent)} :
              voter_parent \in StoredVoters(d)}

\* the parent link of a transaction block is written and never read: the
\* block is mined on the proposer genesis block
TransactionBlocks(d, taken, TS) ==
    {Block(h, proposer_genesis, ts, "Transaction", <<>>, <<>>, H256_default, <<>>, 0) :
        h \in FreshTransactionHashes(d, taken),
        ts \in TS}

\* ---- insert_block as one call
InsertProposer(block) ==
    /\ ~aborted
    /\ block.content = "Proposer"
    /\ db' = write(db, proposer_batch(db, block))
    /\ unreferred_proposers' = proposer_unreferred_proposers(unreferred_proposers, block)
    /\ unconfirmed_proposers' = unconfirmed_proposers \cup {block.hash}
    /\ proposer_best_level' =
           proposer_best_promote(proposer_best_level, proposer_self_level(db, block))
    /\ unreferred_transactions' = proposer_unreferred_transactions(unreferred_transactions, block)
    /\ last_call' = "insert_block"
    /\ repeated' = FALSE
    /\ vote_wb' = <<>>
    /\ UNCHANGED <<leader_call, walk, io_error, leaders_read, threads>>
    /\ UNCHANGED <<voter_best, proposer_ledger_tip, voter_ledger_tips, aborted, inflight,
                   ret>>

InsertVoter(block) ==
    /\ ~aborted
    /\ block.content = "Voter"
    /\ db' = write(db, voter_batch(db, block))
    /\ voter_best' =
           [voter_best EXCEPT ![voter_self_chain(db, block)] =
               voter_best_update(@, block.hash, voter_self_level(db, block))]
    /\ last_call' = "insert_block"
    /\ repeated' = FALSE
    /\ vote_wb' = <<>>
    /\ UNCHANGED <<leader_call, walk, io_error, leaders_read, threads>>
    /\ UNCHANGED <<proposer_best_level, unreferred_transactions, unreferred_proposers,
                   unconfirmed_proposers, proposer_ledger_tip, voter_ledger_tips,
                   aborted, inflight, ret>>

InsertTransaction(block) ==
    /\ ~aborted
    /\ block.content = "Transaction"
    /\ unreferred_transactions' = MapPut(unreferred_transactions, block.hash, block.timestamp)
    /\ db' = write(db, transaction_batch(db, block))
    /\ last_call' = "insert_block"
    /\ repeated' = FALSE
    /\ vote_wb' = <<>>
    /\ UNCHANGED <<leader_call, walk, io_error, leaders_read, threads>>
    /\ UNCHANGED <<proposer_best_level, voter_best, unreferred_proposers,
                   unconfirmed_proposers, proposer_ledger_tip, voter_ledger_tips,
                   aborted, inflight, ret>>

\* ---- insert_block step by step, for the calls of concurrent threads.
\* A call reads the level (and chain) of its parents and builds its batch,
\* updates the in-memory sets that lead the commit, commits the batch (with
\* the promotion of the proposer best level under the same guard), and then
\* updates the in-memory state that follows the commit.
InflightHashes == {call.hash : call \in inflight}

insert_batch(d, block) ==
    IF block.content = "Proposer" THEN proposer_batch(d, block)
    ELSE IF block.content = "Voter" THEN voter_batch(d, block)
    ELSE transaction_batch(d, block)

insert_self_level(d, block) ==
    IF block.content = "Proposer" THEN proposer_self_level(d, block)
    ELSE IF block.content = "Voter" THEN voter_self_level(d, block)
    ELSE 0

insert_self_chain(d, block) ==
    IF block.content = "Voter" THEN voter_self_chain(d, block) ELSE 0

\* what a call holds between its steps: the fields of the block it still
\* reads, the batch it built, the level and chain it computed, its position
Call(d, block, pc) ==
    [hash |-> block.hash, content |-> block.content, parent |-> block.parent,
     proposer_refs |-> block.proposer_refs, transaction_refs |-> block.transaction_refs,
     wb |-> insert_batch(d, block), self_level |-> insert_self_level(d, block),
     self_chain |-> insert_self_chain(d, block), pc |-> pc]

\* a variant of mark_unreferred: the block is not marked before its commit
mark_unreferred_skipped(unreferred, hash, timestamp) == unreferred

\* unreferred.insert(block_hash, block.header.timestamp)
mark_unreferred(unreferred, hash, timestamp) == MapPut(unreferred, hash, timestamp)

\* a variant of mark_unconfirmed: the block is not marked before its commit
mark_unconfirmed_skipped(unconfirmed, hash) == unconfirmed

\* unconfirmed_proposers.insert(block_hash)
mark_unconfirmed(unconfirmed, hash) == unconfirmed \cup {hash}

\* a variant of voter_best_before_commit: the voter block becomes the best of
\* its chain before its batch is committed
voter_best_announced_early(vbest, call) ==
    IF call.content = "Voter"
    THEN [vbest EXCEPT ![call.self_chain] = voter_best_update(@, call.hash, call.self_level)]
    ELSE vbest

\* the best tips while the call builds its batch: voter_best is locked and
\* updated only after self.db.write(wb)
voter_best_before_commit(vbest, call) == vbest

\* up to the commit: the batch is built from what the call read, the block
\* is marked unreferred (proposer, transaction) and unconfirmed (proposer)
InsertBegin(block) ==
    /\ ~aborted
    /\ Cardinality(inflight) < MaxThreads
    /\ block.hash \notin InflightHashes
    /\ inflight' = inflight \cup {Call(db, block, "commit")}
    /\ unreferred_proposers' =
           IF block.content = "Proposer"
           THEN mark_unreferred(unreferred_proposers, block.hash, block.timestamp)
           ELSE unreferred_proposers
    /\ unconfirmed_proposers' =
           IF block.content = "Proposer"
           THEN mark_unconfirmed(unconfirmed_proposers, block.hash)
           ELSE unconfirmed_proposers
    /\ unreferred_transactions' =
           IF block.content = "Transaction"
           THEN mark_unreferred(unreferred_transactions, block.hash, block.timestamp)
           ELSE unreferred_transactions
    /\ voter_best' = voter_best_before_commit(voter_best, Call(db, block, "commit"))
    /\ UNCHANGED <<db, proposer_best_level, proposer_ledger_tip,
                   voter_ledger_tips, aborted, last_call, ret, repeated, vote_wb, leader_call,
                   walk, io_error, leaders_read, threads>>

\* self.db.write(wb), and for a proposer block the promotion of the best level
InsertCommit(call) ==
    /\ ~aborted
    /\ call.pc = "commit"
    /\ db' = write(db, call.wb)
    /\ proposer_best_level' =
           IF call.content = "Proposer"
           THEN proposer_best_promote(proposer_best_level, call.self_level)
           ELSE proposer_best_level
    /\ inflight' = (inflight \ {call}) \cup {[call EXCEPT !.pc = "return"]}
    /\ UNCHANGED <<voter_best, unreferred_transactions, unreferred_proposers,
                   unconfirmed_proposers, proposer_ledger_tip, voter_ledger_tips,
                   aborted, last_call, ret, repeated, vote_wb, leader_call,
                   walk, io_error, leaders_read, threads>>

\* after the commit: what the proposer block refers to is no longer
\* unreferred, the voter block becomes the best of its chain if it is deeper
InsertReturn(call) ==
    /\ ~aborted
    /\ call.pc = "return"
    /\ unreferred_proposers' =
           IF call.content = "Proposer"
           THEN MapRemove(MapRemoveAll(unreferred_proposers, call.proposer_refs),
                          call.parent)
           ELSE unreferred_proposers
    /\ unreferred_transactions' =
           IF call.content = "Proposer"
           THEN proposer_unreferred_transactions(unreferred_transactions, call)
           ELSE unreferred_transactions
    /\ voter_best' =
           IF call.content = "Voter"
           THEN [voter_best EXCEPT ![call.self_chain] =
                    voter_best_update(@, call.hash, call.self_level)]
           ELSE voter_best
    /\ inflight' = inflight \ {call}
    /\ last_call' = "insert_block"
    /\ repeated' = FALSE
    /\ vote_wb' = <<>>
    /\ UNCHANGED <<leader_call, walk, io_error, leaders_read, threads>>
    /\ UNCHANGED <<db, proposer_best_level, unconfirmed_proposers, proposer_ledger_tip,
                   voter_ledger_tips, aborted, ret>>

\* ---------------------------------------------------------------- queries
\* a variant of best_proposer: the block committed last at the best level
best_proposer_last(d, best_level) ==
    d[PROPOSER_TREE_LEVEL_CF][best_level][Len(d[PROPOSER_TREE_LEVEL_CF][best_level])]

\* best_proposer(): the first block of the best proposer level
best_proposer(d, best_level) == d[PROPOSER_TREE_LEVEL_CF][best_level][1]

\* best_voter(chain_num)
best_voter(vbest, chain_num) == vbest[chain_num][1]

\* a variant of sort_by_key_insert: the hashes are compared, not their keys
RECURSIVE sort_by_hash_insert(_, _, _)
sort_by_hash_insert(sorted, x, key) ==
    IF sorted = <<>> THEN <<x>>
    ELSE IF x <= sorted[1] THEN <<x>> \o sorted
    ELSE <<sorted[1]>> \o sort_by_hash_insert(Tail(sorted), x, key)

\* one element placed in a list sorted by key
RECURSIVE sort_by_key_insert(_, _, _)
sort_by_key_insert(sorted, x, key) ==
    IF sorted = <<>> THEN <<x>>
    ELSE IF key[x] <= key[sorted[1]] THEN <<x>> \o sorted
    ELSE <<sorted[1]>> \o sort_by_key_insert(Tail(sorted), x, key)

\* list.sort_unstable_by_key(|x| x.1) as an insertion sort
RECURSIVE sort_by_key(_, _)
sort_by_key(list, key) ==
    IF list = <<>> THEN <<>>
    ELSE sort_by_key_insert(sort_by_key(Tail(list), key), list[1], key)

\* the orders in which a HashMap can be iterated
iter_orders(unreferred) ==
    {list \in DistinctSeqs(DOMAIN unreferred, Cardinality(DOMAIN unreferred)) :
        Len(list) = Cardinality(DOMAIN unreferred)}

\* the map collected in iteration order, sorted by timestamp, the timestamps
\* dropped: the lists the query may return (the sort is unstable and the
\* iteration order unspecified, so blocks of equal timestamp come in any order)
sorted_by_timestamp(unreferred) ==
    {sort_by_key(list, unreferred) : list \in iter_orders(unreferred)}

\* ------------------------------------------------------------- vote_diff
\* a variant of tagged_votes: each vote is tagged with the level of the
\* proposer block voted for
tagged_votes_proposer_level(d, voter, level) ==
    [i \in 1..Len(d[VOTE_NEIGHBOR_CF][voter]) |->
        <<d[VOTE_NEIGHBOR_CF][voter][i],
          d[PROPOSER_NODE_LEVEL_CF][d[VOTE_NEIGHBOR_CF][voter][i]]>>]

\* the votes of a voter block, each tagged with the level of the voter block
tagged_votes(d, voter, level) ==
    [i \in 1..Len(d[VOTE_NEIGHBOR_CF][voter]) |-> <<d[VOTE_NEIGHBOR_CF][voter][i], level>>]

\* the two loops of vote_diff: the longer side is traced back until the levels
\* are the same, then both sides until the blocks are the same
RECURSIVE vote_diff_walk(_, _, _, _, _, _, _)
vote_diff_walk(d, to, to_level, from, from_level, added_votes, removed_votes) ==
    IF to_level > from_level
    THEN vote_diff_walk(d, d[VOTER_PARENT_NEIGHBOR_CF][to], to_level - 1, from, from_level,
                        added_votes \o tagged_votes(d, to, to_level), removed_votes)
    ELSE IF to_level < from_level
    THEN vote_diff_walk(d, to, to_level, d[VOTER_PARENT_NEIGHBOR_CF][from], from_level - 1,
                        added_votes, removed_votes \o tagged_votes(d, from, from_level))
    ELSE IF to /= from
    THEN vote_diff_walk(d, d[VOTER_PARENT_NEIGHBOR_CF][to], to_level - 1,
                        d[VOTER_PARENT_NEIGHBOR_CF][from], from_level - 1,
                        added_votes \o tagged_votes(d, to, to_level),
                        removed_votes \o tagged_votes(d, from, from_level))
    ELSE <<added_votes, removed_votes>>

\* a variant of vote_diff: the walk starts with the two tips exchanged
vote_diff_tips_exchanged(d, from, to) ==
    vote_diff_walk(d, from, d[VOTER_NODE_LEVEL_CF][from], to, d[VOTER_NODE_LEVEL_CF][to],
                   <<>>, <<>>)

\* vote_diff(from, to) = (added_votes, removed_votes)
vote_diff(d, from, to) ==
    vote_diff_walk(d, to, d[VOTER_NODE_LEVEL_CF][to], from, d[VOTER_NODE_LEVEL_CF][from],
                   <<>>, <<>>)

\* ------------------------------------------------- update_ledger: the votes
\* std::u64::MAX, the start of the empty affected range: the greatest
\* 32-bit integer stands for it, no level of a bounded run comes near either
u64_MAX == 2147483647
empty_range == [start |-> u64_MAX, end |-> 0]

\* a variant of range_include: the end of the range is the level itself
range_include_end_at_level(r, proposer_level) ==
    [start |-> IF proposer_level < r.start THEN proposer_level ELSE r.start,
     end |-> IF proposer_level >= r.end THEN proposer_level ELSE r.end]

\* the affected range widened by the level of one voted proposer block
range_include(r, proposer_level) ==
    [start |-> IF proposer_level < r.start THEN proposer_level ELSE r.start,
     end |-> IF proposer_level >= r.end THEN proposer_level + 1 ELSE r.end]

RECURSIVE range_include_votes(_, _, _)
range_include_votes(d, r, votes) ==
    IF votes = <<>> THEN r
    ELSE range_include_votes(
             d, range_include(r, d[PROPOSER_NODE_LEVEL_CF][votes[1][1]]), Tail(votes))

\* a variant of chain_vote_ops: the added votes alone, no vote is removed
chain_vote_ops_additions_only(chain_num, added, removed) ==
    [i \in 1..Len(added) |->
        merge_cf(PROPOSER_NODE_VOTE_CF, added[i][1], <<<<TRUE, chain_num, added[i][2]>>>>)]

\* a variant of chain_vote_ops: the added votes, then the removed votes
chain_vote_ops_added_first(chain_num, added, removed) ==
    [i \in 1..Len(added) |->
        merge_cf(PROPOSER_NODE_VOTE_CF, added[i][1], <<<<TRUE, chain_num, added[i][2]>>>>)]
    \o [i \in 1..Len(removed) |->
        merge_cf(PROPOSER_NODE_VOTE_CF, removed[i][1], <<<<FALSE, chain_num, removed[i][2]>>>>)]

\* the vote-edit merges of one chain: the removed votes, then the added votes
chain_vote_ops(chain_num, added, removed) ==
    [i \in 1..Len(removed) |->
        merge_cf(PROPOSER_NODE_VOTE_CF, removed[i][1], <<<<FALSE, chain_num, removed[i][2]>>>>)]
    \o [i \in 1..Len(added) |->
        merge_cf(PROPOSER_NODE_VOTE_CF, added[i][1], <<<<TRUE, chain_num, added[i][2]>>>>)]

\* the affected range widened by the removed and the added votes of a chain
range_include_diff(d, r, diff) ==
    range_include_votes(d, range_include_votes(d, r, diff[2]), diff[1])

\* the loop over the voter chains, from chain_num on: the new voter ledger
\* tips, the batch of vote edits and the affected range of proposer levels
RECURSIVE vote_phase(_, _, _, _, _, _)
vote_phase_chain(d, vbest, chain_num, tips, wb, r, diff) ==
    vote_phase(d, vbest, chain_num + 1,
               [tips EXCEPT ![chain_num] = vbest[chain_num][1]],
               wb \o chain_vote_ops(chain_num, diff[1], diff[2]),
               range_include_diff(d, r, diff))

vote_phase(d, vbest, chain_num, tips, wb, r) ==
    IF chain_num >= voter_chains THEN [tips |-> tips, wb |-> wb, range |-> r]
    ELSE vote_phase_chain(d, vbest, chain_num, tips, wb, r,
                          vote_diff(d, tips[chain_num], vbest[chain_num][1]))

\* ------------------------------------------------------ proposer_leader
\* f32 as fixed point: FP units per 1.0
FP == 10 ^ 3
adversary_ratio == (4 * FP) \div 10
quantile_epsilon_confirm == (75 * FP) \div 100
quantile_epsilon_deconfirm == (1 * FP) \div 10

\* adversary_ratio / (1.0 - adversary_ratio)
overtake_ratio == (adversary_ratio * FP) \div (FP - adversary_ratio)

\* x.powi(n) for n >= 0
RECURSIVE powi(_, _)
powi(x, n) == IF n = 0 THEN FP ELSE (x * powi(x, n - 1)) \div FP

\* f32::sqrt: the largest r in lo..hi-1 with r * r <= x, by bisection
RECURSIVE isqrt_between(_, _, _)
isqrt_between(x, lo, hi) ==
    IF hi - lo <= 1 THEN lo
    ELSE IF ((lo + hi) \div 2) * ((lo + hi) \div 2) <= x
         THEN isqrt_between(x, (lo + hi) \div 2, hi)
         ELSE isqrt_between(x, lo, (lo + hi) \div 2)
sqrt(x) == isqrt_between(x * FP, 0, voter_chains * FP + 1)

\* exp(lambda) by its power series, term by term until the terms vanish
RECURSIVE exp_series(_, _, _)
exp_series(lambda, term, k) ==
    IF term = 0 THEN 0 ELSE term + exp_series(lambda, (term * lambda) \div (k * FP), k + 1)

\* Poisson(lambda).pmf(k) and .cdf(x)
RECURSIVE poisson_pmf(_, _)
poisson_pmf(lambda, k) ==
    IF k = 0 THEN (FP * FP) \div exp_series(lambda, FP, 1)
    ELSE (poisson_pmf(lambda, k - 1) * lambda) \div (k * FP)

RECURSIVE poisson_cdf(_, _)
poisson_cdf(lambda, x) ==
    IF x < 0 THEN 0 ELSE poisson_pmf(lambda, x) + poisson_cdf(lambda, x - 1)

\* sum over k in 0..depth-1 of pmf(k) * overtake_ratio^(depth - k + 1)
RECURSIVE catch_up(_, _, _)
catch_up(lambda, depth, k) ==
    IF k >= depth THEN 0
    ELSE (poisson_pmf(lambda, k) * powi(overtake_ratio, depth - k + 1)) \div FP
         + catch_up(lambda, depth, k + 1)

\* p: the probability that the adversary removes a vote of this depth
vote_removal_p(lambda, depth) ==
    (FP - poisson_cdf(lambda, depth + 1)) + catch_up(lambda, depth, 0)

\* num_voter_blocks(chain, start_level, end_level)
RECURSIVE num_voter_blocks(_, _, _, _)
num_voter_blocks(d, chain, start_level, end_level) ==
    IF start_level > end_level THEN 0
    ELSE d[VOTER_TREE_LEVEL_COUNT_CF][<<chain, start_level>>]
         + num_voter_blocks(d, chain, start_level + 1, end_level)

\* the main chain votes of a proposer block (none recorded: empty)
main_chain_votes(d, block) ==
    IF block \in DOMAIN d[PROPOSER_NODE_VOTE_CF] THEN d[PROPOSER_NODE_VOTE_CF][block] ELSE <<>>

\* all main chain votes cast on the proposer blocks of the level
level_votes(d, proposer_blocks) ==
    Concat([i \in 1..Len(proposer_blocks) |-> main_chain_votes(d, proposer_blocks[i])])

\* total_vote_blocks: the voter blocks mined since the votes were cast
total_vote_blocks(d, vbest, votes) ==
    SeqSum([i \in 1..Len(votes) |->
               num_voter_blocks(d, votes[i][1], votes[i][2], vbest[votes[i][1]][2])])

\* the depth of a vote: voter_best_level - vote_level + 1
vote_depth(vbest, vote) == vbest[vote[1]][2] - vote[2] + 1

\* the threshold of votes cast, voter_chains * 3 / 5 in u16 arithmetic: the
\* product wraps when the build does not check the overflow
vote_threshold_of(chains) == ((chains * 3) % (2 ^ 16)) \div 5
vote_threshold == vote_threshold_of(voter_chains)

\* adversary_expected_vote_depth: avg_vote_blocks / (1 - ratio) * ratio
adversary_expected_vote_depth(vote_blocks, vote_count) ==
    (((((vote_blocks * FP) \div vote_count) * FP) \div (FP - adversary_ratio))
        * adversary_ratio) \div FP

\* p of each vote of one block
vote_removal_ps(lambda, vbest, votes) ==
    [i \in 1..Len(votes) |-> vote_removal_p(lambda, vote_depth(vbest, votes[i]))]

\* block_votes_mean: the sum of 1 - p; block_votes_variance: of p * (1 - p)
block_votes_mean(ps) == SeqSum([i \in 1..Len(ps) |-> FP - ps[i]])
block_votes_variance(ps) == SeqSum([i \in 1..Len(ps) |-> (ps[i] * (FP - ps[i])) \div FP])

\* if tmp > 0.0 { block_votes_lcb += tmp }
positive_or_zero(tmp) == IF tmp > 0 THEN tmp ELSE 0

\* the gaussian approximation: mean - sqrt(variance) * quantile
gaussian_lcb(ps, quantile) ==
    positive_or_zero(block_votes_mean(ps)
                     - (sqrt(block_votes_variance(ps)) * quantile) \div FP)

\* block_votes_lcb: the lower bound of the votes of one block
block_votes_lcb(lambda, vbest, votes, quantile) ==
    gaussian_lcb(vote_removal_ps(lambda, vbest, votes), quantile)

\* the loop that picks the block of greatest lcb, the lower hash on a tie:
\* <<max_vote_lcb, new_leader>> after the blocks from index i on
RECURSIVE max_lcb_loop(_, _, _, _, _)
max_lcb_loop(proposer_blocks, lcb, i, max_vote_lcb, new_leader) ==
    IF i > Len(proposer_blocks) THEN <<max_vote_lcb, new_leader>>
    ELSE IF max_vote_lcb < lcb[i]
    THEN max_lcb_loop(proposer_blocks, lcb, i + 1, lcb[i], Some(proposer_blocks[i]))
    ELSE IF /\ max_vote_lcb = lcb[i]
            /\ is_some(new_leader)
            /\ proposer_blocks[i] < unwrap(new_leader)
    THEN max_lcb_loop(proposer_blocks, lcb, i + 1, max_vote_lcb, Some(proposer_blocks[i]))
    ELSE max_lcb_loop(proposer_blocks, lcb, i + 1, max_vote_lcb, new_leader)

\* a variant of leader_confirmed: an equality is never lost
leader_confirmed_no_tie_break(proposer_blocks, lcb, best, remaining_votes) ==
    IF best[1] <= remaining_votes \/ ~is_some(best[2]) THEN None
    ELSE IF \E i \in 1..Len(proposer_blocks) :
               /\ best[1] < lcb[i] + remaining_votes
               /\ proposer_blocks[i] /= unwrap(best[2])
         THEN None
         ELSE best[2]

\* the final test of the leader against the votes that remain to be cast;
\* best is <<max_vote_lcb, new_leader>>
leader_confirmed(proposer_blocks, lcb, best, remaining_votes) ==
    IF best[1] <= remaining_votes \/ ~is_some(best[2]) THEN None
    ELSE IF \E i \in 1..Len(proposer_blocks) :
               \/ /\ best[1] < lcb[i] + remaining_votes
                  /\ proposer_blocks[i] /= unwrap(best[2])
               \/ /\ best[1] = lcb[i] + remaining_votes
                  /\ proposer_blocks[i] < unwrap(best[2])
         THEN None
         ELSE best[2]

\* votes_lcb: the lower bound of each proposer block of the level
votes_lcb(d, vbest, proposer_blocks, lambda, quantile) ==
    [i \in 1..Len(proposer_blocks) |->
        block_votes_lcb(lambda, vbest, main_chain_votes(d, proposer_blocks[i]), quantile)]

\* the leader, from the lower bounds of the blocks of the level:
\* remaining_votes = f32::from(voter_chains) - total_votes_lcb
leader_of_lcb_chains(chains, proposer_blocks, lcb) ==
    leader_confirmed(proposer_blocks, lcb, max_lcb_loop(proposer_blocks, lcb, 1, 0, None),
                     chains * FP - SeqSum(lcb))

leader_of_lcb(proposer_blocks, lcb) == leader_of_lcb_chains(voter_chains, proposer_blocks, lcb)

\* the leader, from the main chain votes cast on the level
leader_of_votes(d, vbest, proposer_blocks, votes, quantile) ==
    IF Len(votes) > vote_threshold
    THEN leader_of_lcb(
             proposer_blocks,
             votes_lcb(d, vbest, proposer_blocks,
                       adversary_expected_vote_depth(total_vote_blocks(d, vbest, votes),
                                                     Len(votes)),
                       quantile))
    ELSE None

\* the leader, from the proposer blocks of the level
leader_of_blocks(d, vbest, proposer_blocks, quantile) ==
    leader_of_votes(d, vbest, proposer_blocks, level_votes(d, proposer_blocks), quantile)

\* proposer_leader(level, quantile): Option<H256>
proposer_leader(d, vbest, level, quantile) ==
    leader_of_blocks(d, vbest, d[PROPOSER_TREE_LEVEL_CF][level], quantile)

\* the panic of proposer_leader: more main chain votes than voter chains
proposer_leader_panics(d, level) ==
    voter_chains < Len(level_votes(d, d[PROPOSER_TREE_LEVEL_CF][level]))

\* ------------------------------------------- update_ledger: the leaders
\* the affected range lowered to the ledger tip + 1
range_from_tip(r, tip) ==
    IF r.start < r.end /\ tip + 1 < r.start THEN [r EXCEPT !.start = tip + 1] ELSE r

\* a variant of new_leader_of: the confirm quantile whether or not a leader
\* is recorded
new_leader_of_confirm_only(d, vbest, level) ==
    proposer_leader(d, vbest, level, quantile_epsilon_confirm)

\* a variant of new_leader_of: the deconfirm quantile whether or not a leader
\* is recorded
new_leader_of_deconfirm_only(d, vbest, level) ==
    proposer_leader(d, vbest, level, quantile_epsilon_deconfirm)

\* the new leader of a level: the deconfirm quantile decides when a leader is
\* recorded, the confirm quantile when none is
new_leader_of(d, vbest, level) ==
    IF is_some(get_pinned_cf(d, PROPOSER_LEADER_SEQUENCE_CF, level))
    THEN proposer_leader(d, vbest, level, quantile_epsilon_deconfirm)
    ELSE proposer_leader(d, vbest, level, quantile_epsilon_confirm)

\* the batch operation that records the new leader of a level
leader_op(level, new_leader) ==
    IF is_some(new_leader)
    THEN put_cf(PROPOSER_LEADER_SEQUENCE_CF, level, unwrap(new_leader))
    ELSE delete_cf(PROPOSER_LEADER_SEQUENCE_CF, level)

\* the loop over the levels level..end-1: the batch of leader changes and the
\* first level whose leader changed
RECURSIVE leader_phase(_, _, _, _, _, _)
leader_phase_level(d, vbest, level, end, wb, change_begin, new_leader) ==
    IF new_leader /= get_pinned_cf(d, PROPOSER_LEADER_SEQUENCE_CF, level)
    THEN leader_phase(d, vbest, level + 1, end, Append(wb, leader_op(level, new_leader)),
                      IF is_some(change_begin) THEN change_begin ELSE Some(level))
    ELSE leader_phase(d, vbest, level + 1, end, wb, change_begin)

leader_phase(d, vbest, level, end, wb, change_begin) ==
    IF level >= end THEN [wb |-> wb, change_begin |-> change_begin]
    ELSE leader_phase_level(d, vbest, level, end, wb, change_begin,
                            new_leader_of(d, vbest, level))

\* -------------------------------------------- update_ledger: the ledger
\* the blocks of the ledger order of the levels level..tip, deconfirmed
RECURSIVE deconfirmed(_, _, _)
deconfirmed(d, level, tip) ==
    IF level > tip THEN <<>>
    ELSE d[PROPOSER_LEDGER_ORDER_CF][level] \o deconfirmed(d, level + 1, tip)

deconfirm_ops(level, tip) ==
    [i \in 1..(tip + 1 - level) |-> delete_cf(PROPOSER_LEDGER_ORDER_CF, level + i - 1)]

\* the depth-first traverse from the leader: the stack is popped from its
\* end, confirmed blocks are skipped, the others are pushed on the order
\* (possibly several times) and their refs on the stack
RECURSIVE traverse(_, _, _, _)
traverse(d, unconfirmed, stack, order) ==
    IF stack = <<>> THEN order
    ELSE IF stack[Len(stack)] \notin unconfirmed
    THEN traverse(d, unconfirmed, SubSeq(stack, 1, Len(stack) - 1), order)
    ELSE traverse(d, unconfirmed,
                  SubSeq(stack, 1, Len(stack) - 1)
                      \o d[PROPOSER_REF_NEIGHBOR_CF][stack[Len(stack)]],
                  Append(order, stack[Len(stack)]))

\* a variant of filter_remove: the last copy is kept
RECURSIVE filter_keeps_last(_, _)
filter_keeps_last(order, unconfirmed) ==
    IF order = <<>> THEN <<>>
    ELSE IF order[1] \in unconfirmed /\ ~contains(Tail(order), order[1])
    THEN <<order[1]>> \o filter_keeps_last(Tail(order), unconfirmed)
    ELSE filter_keeps_last(Tail(order), unconfirmed)

\* order.filter(|h| unconfirmed_proposers.remove(h)): the first copy is kept
RECURSIVE filter_remove(_, _)
filter_remove(order, unconfirmed) ==
    IF order = <<>> THEN <<>>
    ELSE IF order[1] \in unconfirmed
    THEN <<order[1]>> \o filter_remove(Tail(order), unconfirmed \ {order[1]})
    ELSE filter_remove(Tail(order), unconfirmed)

\* a variant of level_order: the blocks confirmed before are not skipped
level_order_unfiltered(d, unconfirmed, leader) ==
    Reverse(traverse(d, StoredProposers(d), <<leader>>, <<>>))

\* a variant of level_order: the order is not reversed, the leader comes first
level_order_leader_first(d, unconfirmed, leader) ==
    filter_remove(traverse(d, unconfirmed, <<leader>>, <<>>), unconfirmed)

\* the ledger order of one level, from its leader
level_order(d, unconfirmed, leader) ==
    filter_remove(Reverse(traverse(d, unconfirmed, <<leader>>, <<>>)), unconfirmed)

\* the loop over the levels from level on, until the first without leader
RECURSIVE reconfirm(_, _, _, _, _)
\* a variant of reconfirm_level: the blocks of the order stay unconfirmed
reconfirm_level_keeps_unconfirmed(d, level, unconfirmed, wb, added, order) ==
    reconfirm(d, level + 1, unconfirmed,
              Append(wb, put_cf(PROPOSER_LEDGER_ORDER_CF, level, order)), added \o order)

reconfirm_level(d, level, unconfirmed, wb, added, order) ==
    reconfirm(d, level + 1, unconfirmed \ Range(order),
              Append(wb, put_cf(PROPOSER_LEDGER_ORDER_CF, level, order)), added \o order)

reconfirm(d, level, unconfirmed, wb, added) ==
    IF ~is_some(get_pinned_cf(d, PROPOSER_LEADER_SEQUENCE_CF, level))
    THEN [tip |-> level - 1, unconfirmed |-> unconfirmed, wb |-> wb, added |-> added]
    ELSE reconfirm_level(d, level, unconfirmed, wb, added,
                         level_order(d, unconfirmed, d[PROPOSER_LEADER_SEQUENCE_CF][level]))

\* a variant of ledger_after_deconfirm: the levels from change_begin on are
\* confirmed whether or not change_begin is beyond the level after the tip
ledger_after_deconfirm_any_level(d, change_begin, tip, unconfirmed, removed) ==
    reconfirm(d, change_begin, unconfirmed \cup Range(removed),
              deconfirm_ops(change_begin, tip), <<>>)

\* the ledger recomputed from change_begin, the removed blocks deconfirmed
\* first: the new tip, the new unconfirmed set, the batch, the added blocks
ledger_after_deconfirm(d, change_begin, tip, unconfirmed, removed) ==
    IF change_begin <= tip + 1
    THEN reconfirm(d, change_begin, unconfirmed \cup Range(removed),
                   deconfirm_ops(change_begin, tip), <<>>)
    ELSE [tip |-> tip, unconfirmed |-> unconfirmed \cup Range(removed),
          wb |-> deconfirm_ops(change_begin, tip), added |-> <<>>]

\* the transaction blocks the proposer blocks refer to, concatenated
transaction_blocks_of(d, blocks) ==
    Concat([i \in 1..Len(blocks) |-> d[TRANSACTION_REF_NEIGHBOR_CF][blocks[i]]])

\* ---- update_ledger as one call, phase after phase: the store, the in-memory
\* state and what it returns; panics when a vote-edit merge removes an absent
\* entry or a level of the affected range holds more votes than voter chains
\* a variant of ledger_committed: the two lists are returned the other way round
ledger_committed_removed_first(d, tips, ledger, removed) ==
    [panics |-> FALSE, db |-> write(d, ledger.wb), voter_ledger_tips |-> tips,
     proposer_ledger_tip |-> ledger.tip, unconfirmed_proposers |-> ledger.unconfirmed,
     ret |-> <<transaction_blocks_of(d, removed), transaction_blocks_of(d, ledger.added)>>]

ledger_committed(d, tips, ledger, removed) ==
    [panics |-> FALSE, db |-> write(d, ledger.wb), voter_ledger_tips |-> tips,
     proposer_ledger_tip |-> ledger.tip, unconfirmed_proposers |-> ledger.unconfirmed,
     ret |-> <<transaction_blocks_of(d, ledger.added), transaction_blocks_of(d, removed)>>]

ledger_phase(d, tips, change_begin, ledger_tip, unconfirmed, removed) ==
    ledger_committed(d, tips,
                     ledger_after_deconfirm(d, change_begin, ledger_tip, unconfirmed, removed),
                     removed)

\* a variant of leaders_committed: the ledger is rebuilt from level 1 when
\* no leader changed
leaders_committed_rebuilds(d, tips, ledger_tip, unconfirmed, change_begin) ==
    ledger_phase(d, tips, IF is_some(change_begin) THEN unwrap(change_begin) ELSE 1,
                 ledger_tip, unconfirmed,
                 deconfirmed(d, IF is_some(change_begin) THEN unwrap(change_begin) ELSE 1,
                             ledger_tip))

leaders_committed(d, tips, ledger_tip, unconfirmed, change_begin) ==
    IF is_some(change_begin)
    THEN ledger_phase(d, tips, unwrap(change_begin), ledger_tip, unconfirmed,
                      deconfirmed(d, unwrap(change_begin), ledger_tip))
    ELSE [panics |-> FALSE, db |-> d, voter_ledger_tips |-> tips,
          proposer_ledger_tip |-> ledger_tip, unconfirmed_proposers |-> unconfirmed,
          ret |-> <<<<>>, <<>>>>]

leaders_found(d, tips, ledger_tip, unconfirmed, leaders) ==
    leaders_committed(write(d, leaders.wb), tips, ledger_tip, unconfirmed,
                      leaders.change_begin)

votes_committed(d, vbest, tips, ledger_tip, unconfirmed, range) ==
    IF \E level \in range.start..(range.end - 1) : proposer_leader_panics(d, level)
    THEN [panics |-> TRUE, db |-> d, voter_ledger_tips |-> tips]
    ELSE leaders_found(d, tips, ledger_tip, unconfirmed,
                       leader_phase(d, vbest, range.start, range.end, <<>>, None))

votes_found(d, vbest, ledger_tip, unconfirmed, votes) ==
    IF write_unreachable(d, votes.wb)
    THEN [panics |-> TRUE, db |-> d, voter_ledger_tips |-> votes.tips]
    ELSE votes_committed(write(d, votes.wb), vbest, votes.tips, ledger_tip, unconfirmed,
                         range_from_tip(votes.range, ledger_tip))

update_ledger(d, vbest, tips, ledger_tip, unconfirmed) ==
    votes_found(d, vbest, ledger_tip, unconfirmed,
                vote_phase(d, vbest, 0, tips, <<>>, empty_range))

\* the state after the call that computed r
update_ledger_returns(r) ==
    IF r.panics
    THEN /\ aborted' = TRUE
         /\ db' = r.db
         /\ voter_ledger_tips' = r.voter_ledger_tips
         /\ UNCHANGED <<proposer_ledger_tip, unconfirmed_proposers, ret, last_call,
                        repeated>>
    ELSE /\ db' = r.db
         /\ repeated' = (last_call = "update_ledger")
         /\ voter_ledger_tips' = r.voter_ledger_tips
         /\ proposer_ledger_tip' = r.proposer_ledger_tip
         /\ unconfirmed_proposers' = r.unconfirmed_proposers
         /\ ret' = r.ret
         /\ last_call' = "update_ledger"
         /\ aborted' = FALSE

UpdateLedger ==
    /\ ~aborted
    /\ update_ledger_returns(update_ledger(db, voter_best, voter_ledger_tips,
                                           proposer_ledger_tip, unconfirmed_proposers))
    /\ vote_wb' = vote_phase(db, voter_best, 0, voter_ledger_tips, <<>>, empty_range).wb
    /\ UNCHANGED <<leader_call, walk, io_error, leaders_read, threads>>
    /\ UNCHANGED <<proposer_best_level, voter_best, unreferred_transactions,
                   unreferred_proposers, inflight>>

Next ==
    \/ /\ NumInserted(db) < MaxBlocks
       /\ \/ \E block \in ProposerBlocks(db, {}, {0}) : InsertProposer(block)
          \/ \E block \in VoterBlocks(db, {}) : InsertVoter(block)
          \/ \E block \in TransactionBlocks(db, {}, {0}) : InsertTransaction(block)
    \/ UpdateLedger

Spec == Init /\ [][Next]_vars

\* insert_block called by concurrent threads, update_ledger by one thread
NextConcurrent ==
    \/ /\ NumInserted(db) + Cardinality({call \in inflight : call.pc = "commit"})
              < MaxConcurrentBlocks
       /\ \/ \E block \in ProposerBlocks(db, InflightHashes, {0}) : InsertBegin(block)
          \/ \E block \in VoterBlocks(db, InflightHashes) : InsertBegin(block)
    \/ \E call \in inflight : InsertCommit(call)
    \/ \E call \in inflight : InsertReturn(call)
    \/ UpdateLedger

SpecConcurrent == Init /\ [][NextConcurrent]_vars

\* insert_block of proposer and transaction blocks called by concurrent
\* threads; a block is delivered when the blocks it refers to are stored
NextConcurrentRefs ==
    \/ \E block \in ProposerBlocks(db, InflightHashes, {0}) :
           /\ NumInserted(db) + Cardinality({call \in inflight : call.pc = "commit"})
                  < MaxConcurrentBlocks
           /\ InsertBegin(block)
    \/ \E block \in TransactionBlocks(db, InflightHashes, {0}) :
           /\ NumInserted(db) + Cardinality({call \in inflight : call.pc = "commit"})
                  < MaxConcurrentBlocks
           /\ InsertBegin(block)
    \/ \E call \in inflight : InsertCommit(call)
    \/ \E call \in inflight : InsertReturn(call)

SpecConcurrentRefs == Init /\ [][NextConcurrentRefs]_vars

\* ------------------------------------------------------------------ reopen
\* proposer_leaders(): the leaders of the levels 0..=proposer_ledger_tip
proposer_leaders(d, tip) == [i \in 1..(tip + 1) |-> d[PROPOSER_LEADER_SEQUENCE_CF][i - 1]]

\* lagging_level(): the best proposer level minus the ledger tip, 0 when the
\* tip is beyond the best level
lagging_level(best_level, tip) == IF tip > best_level THEN 0 ELSE best_level - tip

\* open(path, config) on the store the process wrote: the column families are
\* found as they were committed, the in-memory fields get their default values
Reopen ==
    /\ ~aborted
    /\ inflight = {}
    /\ last_call /= "open"
    /\ proposer_best_level' = 0
    /\ voter_best' = open_voter_best
    /\ unreferred_transactions' = EmptyCf
    /\ unreferred_proposers' = EmptyCf
    /\ unconfirmed_proposers' = {}
    /\ proposer_ledger_tip' = 0
    /\ voter_ledger_tips' = open_voter_ledger_tips
    /\ last_call' = "open"
    /\ UNCHANGED <<db, aborted, inflight, ret, repeated, vote_wb, leader_call,
                   walk, io_error, leaders_read, threads>>

\* blocks are inserted and the ledger updated, then the store is reopened and
\* queried
NextReopen ==
    \/ last_call /= "open" /\ Next
    \/ Reopen

SpecReopen == Init /\ [][NextReopen]_vars

\* ------------------------------------------------------- unvoted_proposer
\* blocks.sort_unstable(): the hashes in ascending order (they are distinct)
RECURSIVE sort_insert(_, _)
sort_insert(sorted, x) ==
    IF sorted = <<>> THEN <<x>>
    ELSE IF x <= sorted[1] THEN <<x>> \o sorted
    ELSE <<sorted[1]>> \o sort_insert(Tail(sorted), x)

RECURSIVE sort_unstable(_)
sort_unstable(blocks) ==
    IF blocks = <<>> THEN <<>> ELSE sort_insert(sort_unstable(Tail(blocks)), blocks[1])

\* the vote count of a proposer block, 0 when none is stored
proposer_vote_count(d, block_hash) ==
    IF block_hash \in DOMAIN d[PROPOSER_VOTE_COUNT_CF]
    THEN d[PROPOSER_VOTE_COUNT_CF][block_hash] ELSE 0

\* a variant of best_vote_next: a block of equal vote count replaces the best
best_vote_next_on_equal(best_vote, block_hash, count) ==
    IF is_some(best_vote) /\ count < unwrap(best_vote)[2] THEN best_vote
    ELSE Some(<<block_hash, count>>)

\* best_vote after one more block: the first block, then any block of
\* strictly greater vote count
best_vote_next(best_vote, block_hash, count) ==
    IF is_some(best_vote) /\ count <= unwrap(best_vote)[2] THEN best_vote
    ELSE Some(<<block_hash, count>>)

\* the loop over the sorted blocks of a level, from index i on
RECURSIVE best_vote_loop(_, _, _, _)
best_vote_loop(d, blocks, i, best_vote) ==
    IF i > Len(blocks) THEN best_vote
    ELSE best_vote_loop(d, blocks, i + 1,
                        best_vote_next(best_vote, blocks[i],
                                       proposer_vote_count(d, blocks[i])))

\* the block to vote for at a level
unvoted_level(d, level) ==
    unwrap(best_vote_loop(d, sort_unstable(d[PROPOSER_TREE_LEVEL_CF][level]), 1, None))[1]

\* the list over the levels first_vote_level + 1 ..= last_vote_level
unvoted_levels(d, first_vote_level, last_vote_level) ==
    [i \in 1..(last_vote_level - first_vote_level) |-> unvoted_level(d, first_vote_level + i)]

\* unvoted_proposer(tip, proposer_parent)
unvoted_proposer(d, tip, proposer_parent) ==
    unvoted_levels(d, d[VOTER_NODE_VOTED_LEVEL_CF][tip],
                   d[PROPOSER_NODE_LEVEL_CF][proposer_parent])

\* ---- proposer and transaction blocks mined at different times, inserted one
\* at a time
NextTimestamps ==
    \/ \E block \in ProposerBlocks(db, {}, Timestamps) :
           NumInserted(db) < MaxBlocks /\ InsertProposer(block)
    \/ \E block \in TransactionBlocks(db, {}, Timestamps) :
           NumInserted(db) < MaxBlocks /\ InsertTransaction(block)

SpecTimestamps == Init /\ [][NextTimestamps]_vars

\* ------------------------------------------- the merge operators on one key
\* b"testkey": a key that no block hashes to
testkey == MaxProposers + voter_chains + MaxVoters + MaxTransactions + 1

\* (add, chain, level): one operation of a vote-edit operand
VoteOperations == BOOLEAN \X Chains \X (0..MaxVoteLevel)

\* the operands merged into the key: Vecs of operations
VoteOperands == UNION {[1..n -> VoteOperations] : n \in 1..MaxOperandLen}

\* db.merge_cf(PROPOSER_NODE_VOTE_CF, b"testkey", serialize(&op)) and the full
\* merge that a read of the key triggers
MergeVotes(op) ==
    /\ ~aborted
    /\ vote_wb' = <<merge_cf(PROPOSER_NODE_VOTE_CF, testkey, op)>>
    /\ UNCHANGED <<leader_call, walk, io_error, leaders_read, threads>>
    /\ aborted' = write_unreachable(db, vote_wb')
    /\ db' = IF aborted' THEN db ELSE write(db, vote_wb')
    /\ last_call' = "merge_cf"
    /\ UNCHANGED <<proposer_best_level, voter_best, unreferred_transactions,
                   unreferred_proposers, unconfirmed_proposers, proposer_ledger_tip,
                   voter_ledger_tips, inflight, ret, repeated>>

NextVoteMerge == \E op \in VoteOperands : MergeVotes(op)

SpecVoteMerge == Init /\ [][NextVoteMerge]_vars

\* hash_1 .. hash_4 of the test
MergeHashes == 0..MaxMergeHash

\* the operands merged into the key: Vecs of hashes
HashOperands == UNION {[1..n -> MergeHashes] : n \in 1..MaxOperandLen}

\* db.merge_cf(PARENT_NEIGHBOR_CF, b"testkey", serialize(&op)) and the full
\* merge that a read of the key triggers
MergeH256Vec(op) ==
    /\ vote_wb' = <<merge_cf(PARENT_NEIGHBOR_CF, testkey, op)>>
    /\ UNCHANGED <<leader_call, walk, io_error, leaders_read, threads>>
    /\ db' = write(db, vote_wb')
    /\ last_call' = "merge_cf"
    /\ UNCHANGED <<proposer_best_level, voter_best, unreferred_transactions,
                   unreferred_proposers, unconfirmed_proposers, proposer_ledger_tip,
                   voter_ledger_tips, aborted, inflight, ret, repeated>>

NextAppendMerge == \E op \in HashOperands : MergeH256Vec(op)

SpecAppendMerge == Init /\ [][NextAppendMerge]_vars

\* ------------------------------------- proposer_leader evaluated on its own
\* u16::MAX, the greatest config.voter_chains
u16_MAX == 2 ^ 16 - 1

\* the values of config.voter_chains evaluated: small ones, and those around
\* the greatest whose triple fits in 16 bits
RuleChains == {VoterChains, MaxRuleChains, u16_MAX \div 3, u16_MAX \div 3 + 1, u16_MAX}

\* proposer_blocks: the blocks of the level in their stored order
RuleBlocks(chains) ==
    IF chains <= MaxRuleChains
    THEN DistinctSeqs(1..MaxRuleBlocks, MaxRuleBlocks) \ {<<>>}
    ELSE {<<1>>, <<2, 1>>}

\* total_vote_count: every count for few chains, the counts around the
\* threshold for many
RuleVoteCounts(chains) ==
    IF chains <= MaxRuleChains THEN 0..chains
    ELSE {vote_threshold_of(chains), vote_threshold_of(chains) + 1,
          (chains * 3) \div 5, (chains * 3) \div 5 + 1, chains}

\* block_votes_lcb of one block: from 0.0 (shallow votes) to the count of the
\* votes (votes so deep that p is 0.0)
RuleLcbs(chains, total_vote_count) ==
    IF chains <= MaxRuleChains
    THEN {(k * FP) \div 2 : k \in 0..(2 * total_vote_count)}
    ELSE {0, (total_vote_count * FP) \div 2, total_vote_count * FP}

\* proposer_leader from the count of the votes of the level and the lower
\* bounds of its blocks
leader_rule(chains, proposer_blocks, total_vote_count, lcb) ==
    IF total_vote_count > vote_threshold_of(chains)
    THEN leader_of_lcb_chains(chains, proposer_blocks, lcb)
    ELSE None

\* voter_chains * 3 panics in a build that checks the overflow
threshold_overflows(chains) == chains * 3 > u16_MAX

\* proposer_leader(level, quantile) on a level with these blocks and votes
ProposerLeaderCall(chains, proposer_blocks, total_vote_count, lcb, overflow_checks) ==
    /\ ~aborted
    /\ leader_call = <<>>
    /\ aborted' = (overflow_checks /\ total_vote_count <= chains /\ threshold_overflows(chains))
    /\ leader_call' =
           <<[voter_chains |-> chains, proposer_blocks |-> proposer_blocks,
              total_vote_count |-> total_vote_count, votes_lcb |-> lcb,
              new_leader |-> IF aborted' THEN None
                             ELSE leader_rule(chains, proposer_blocks, total_vote_count, lcb)]>>
    /\ last_call' = "proposer_leader"
    /\ UNCHANGED <<db, proposer_best_level, voter_best, unreferred_transactions,
                   unreferred_proposers, unconfirmed_proposers, proposer_ledger_tip,
                   voter_ledger_tips, inflight, ret, repeated, vote_wb, walk, io_error,
                   leaders_read, threads>>

NextLeaderRule ==
    /\ leader_call = <<>>
    /\ \E chains \in RuleChains, overflow_checks \in BOOLEAN :
           \E proposer_blocks \in RuleBlocks(chains), total_vote_count \in RuleVoteCounts(chains) :
               \E lcb \in [1..Len(proposer_blocks) -> RuleLcbs(chains, total_vote_count)] :
                   /\ SeqSum(lcb) <= total_vote_count * FP
                   /\ ProposerLeaderCall(chains, proposer_blocks, total_vote_count, lcb,
                                         overflow_checks)

SpecLeaderRule == Init /\ [][NextLeaderRule]_vars

\* --------------------------------- the loops of the calls, one iteration a step
\* the blocks inserted while the loops are run step by step
MaxWalkBlocks == 4

\* vote_diff(from, to) before its first loop: the two levels are read
vote_diff_begin(d, from, to) ==
    [fn |-> "vote_diff", pc |-> "levels", args |-> <<from, to>>, to |-> to, from |-> from,
     to_level |-> d[VOTER_NODE_LEVEL_CF][to], from_level |-> d[VOTER_NODE_LEVEL_CF][from],
     added_votes |-> <<>>, removed_votes |-> <<>>]

\* one iteration of the first loop: the longer side is traced back one block
trace_back_longer(d, w) ==
    IF w.to_level > w.from_level
    THEN [w EXCEPT !.added_votes = @ \o tagged_votes(d, w.to, w.to_level),
                   !.to = d[VOTER_PARENT_NEIGHBOR_CF][w.to], !.to_level = @ - 1]
    ELSE [w EXCEPT !.removed_votes = @ \o tagged_votes(d, w.from, w.from_level),
                   !.from = d[VOTER_PARENT_NEIGHBOR_CF][w.from], !.from_level = @ - 1]

\* one iteration of the second loop: both sides are traced back one block
trace_back_both(d, w) ==
    [w EXCEPT !.added_votes = @ \o tagged_votes(d, w.to, w.to_level),
              !.to = d[VOTER_PARENT_NEIGHBOR_CF][w.to], !.to_level = @ - 1,
              !.removed_votes = @ \o tagged_votes(d, w.from, w.from_level),
              !.from = d[VOTER_PARENT_NEIGHBOR_CF][w.from], !.from_level = @ - 1]

\* the loop tests of vote_diff and the iteration they lead to
vote_diff_step(d, w) ==
    IF w.pc = "levels"
    THEN IF w.to_level /= w.from_level THEN trace_back_longer(d, w)
         ELSE [w EXCEPT !.pc = "joint"]
    ELSE IF w.to /= w.from THEN trace_back_both(d, w)
         ELSE [w EXCEPT !.pc = "returned"]

\* the next iteration unwraps the parent of a block that has none stored
vote_diff_unwraps_none(d, w) ==
    IF w.pc = "levels"
    THEN \/ w.to_level > w.from_level /\ w.to \notin DOMAIN d[VOTER_PARENT_NEIGHBOR_CF]
         \/ w.to_level < w.from_level /\ w.from \notin DOMAIN d[VOTER_PARENT_NEIGHBOR_CF]
    ELSE /\ w.to /= w.from
         /\ \/ w.to \notin DOMAIN d[VOTER_PARENT_NEIGHBOR_CF]
            \/ w.from \notin DOMAIN d[VOTER_PARENT_NEIGHBOR_CF]

VoteDiffBegin(from, to) ==
    /\ ~aborted
    /\ walk = <<>>
    /\ walk' = <<vote_diff_begin(db, from, to)>>
    /\ UNCHANGED <<db, proposer_best_level, voter_best, unreferred_transactions,
                   unreferred_proposers, unconfirmed_proposers, proposer_ledger_tip,
                   voter_ledger_tips, aborted, inflight, last_call, ret, repeated, vote_wb,
                   leader_call, io_error, leaders_read, threads>>

VoteDiffStep ==
    /\ walk /= <<>>
    /\ walk[1].fn = "vote_diff"
    /\ walk[1].pc /= "returned"
    /\ aborted' = vote_diff_unwraps_none(db, walk[1])
    /\ walk' = IF aborted' THEN <<>> ELSE <<vote_diff_step(db, walk[1])>>
    /\ UNCHANGED <<db, proposer_best_level, voter_best, unreferred_transactions,
                   unreferred_proposers, unconfirmed_proposers, proposer_ledger_tip,
                   voter_ledger_tips, inflight, last_call, ret, repeated, vote_wb,
                   leader_call, io_error, leaders_read, threads>>

VoteDiffReturn ==
    /\ walk /= <<>>
    /\ walk[1].fn = "vote_diff"
    /\ walk[1].pc = "returned"
    /\ walk' = <<>>
    /\ UNCHANGED <<db, proposer_best_level, voter_best, unreferred_transactions,
                   unreferred_proposers, unconfirmed_proposers, proposer_ledger_tip,
                   voter_ledger_tips, aborted, inflight, last_call, ret, repeated, vote_wb,
                   leader_call, io_error, leaders_read, threads>>

\* update_ledger before its reconfirm loop: the loop is entered when the
\* ledger is continuous up to change_begin, r is what the call as one step gives
ledger_loop_begin(d, change_begin, ledger_tip, r) ==
    [fn |-> "update_ledger",
     pc |-> IF is_some(change_begin) /\ unwrap(change_begin) <= ledger_tip + 1
            THEN "level" ELSE "write",
     level |-> IF is_some(change_begin) THEN unwrap(change_begin) ELSE 0,
     wb |-> IF is_some(change_begin) THEN deconfirm_ops(unwrap(change_begin), ledger_tip)
            ELSE <<>>,
     added |-> <<>>,
     removed |-> IF is_some(change_begin) THEN deconfirmed(d, unwrap(change_begin), ledger_tip)
                 ELSE <<>>,
     stack |-> <<>>, order |-> <<>>, as_one_call |-> r]

\* a variant of pop: the top stays on the stack
pop_keeps_top(stack) == stack

\* what stack.pop() leaves on the stack
pop(stack) == SubSeq(stack, 1, Len(stack) - 1)

\* the vote edits and the leaders are committed, the levels from the first
\* changed leader on are deconfirmed
UpdateLedgerBegin ==
    /\ ~aborted
    /\ walk = <<>>
    /\ LET r == update_ledger(db, voter_best, voter_ledger_tips, proposer_ledger_tip,
                              unconfirmed_proposers)
           votes == vote_phase(db, voter_best, 0, voter_ledger_tips, <<>>, empty_range)
           range == range_from_tip(votes.range, proposer_ledger_tip)
           leaders == leader_phase(write(db, votes.wb), voter_best, range.start, range.end,
                                   <<>>, None)
           d == write(write(db, votes.wb), leaders.wb)
       IN  IF r.panics
           THEN update_ledger_returns(r) /\ UNCHANGED walk
           ELSE /\ db' = d
                /\ voter_ledger_tips' = votes.tips
                /\ walk' = <<ledger_loop_begin(d, leaders.change_begin, proposer_ledger_tip, r)>>
                /\ unconfirmed_proposers' = unconfirmed_proposers \cup Range(walk'[1].removed)
                /\ UNCHANGED <<proposer_ledger_tip, aborted, last_call, ret, repeated>>
    /\ vote_wb' = vote_phase(db, voter_best, 0, voter_ledger_tips, <<>>, empty_range).wb
    /\ UNCHANGED <<proposer_best_level, voter_best, unreferred_transactions,
                   unreferred_proposers, inflight, leader_call, io_error, leaders_read,
                   threads>>

\* the head of the loop over the levels: the leader of the level is read
LedgerLevelStep ==
    /\ walk /= <<>>
    /\ walk[1].fn = "update_ledger"
    /\ walk[1].pc = "level"
    /\ IF is_some(get_pinned_cf(db, PROPOSER_LEADER_SEQUENCE_CF, walk[1].level))
       THEN /\ walk' = <<[walk[1] EXCEPT
                             !.stack = <<db[PROPOSER_LEADER_SEQUENCE_CF][walk[1].level]>>,
                             !.order = <<>>, !.pc = "traverse"]>>
            /\ UNCHANGED proposer_ledger_tip
       ELSE /\ proposer_ledger_tip' = walk[1].level - 1
            /\ walk' = <<[walk[1] EXCEPT !.pc = "write"]>>
    /\ UNCHANGED <<db, proposer_best_level, voter_best, unreferred_transactions,
                   unreferred_proposers, unconfirmed_proposers, voter_ledger_tips, aborted,
                   inflight, last_call, ret, repeated, vote_wb, leader_call, io_error,
                   leaders_read, threads>>

\* one iteration of the depth-first traverse: the top is popped, skipped when
\* it is confirmed, pushed on the order and its refs on the stack otherwise
LedgerTraverseStep ==
    /\ walk /= <<>>
    /\ walk[1].fn = "update_ledger"
    /\ walk[1].pc = "traverse"
    /\ walk[1].stack /= <<>>
    /\ walk' = IF walk[1].stack[Len(walk[1].stack)] \notin unconfirmed_proposers
               THEN <<[walk[1] EXCEPT !.stack = pop(@)]>>
               ELSE <<[walk[1] EXCEPT
                          !.stack = pop(@) \o db[PROPOSER_REF_NEIGHBOR_CF][@[Len(@)]],
                          !.order = Append(@, walk[1].stack[Len(walk[1].stack)])]>>
    /\ UNCHANGED <<db, proposer_best_level, voter_best, unreferred_transactions,
                   unreferred_proposers, unconfirmed_proposers, proposer_ledger_tip,
                   voter_ledger_tips, aborted, inflight, last_call, ret, repeated, vote_wb,
                   leader_call, io_error, leaders_read, threads>>

\* the stack is empty: the order is reversed, its first copies are kept and
\* confirmed, the order of the level is batched
LedgerLevelEnd ==
    /\ walk /= <<>>
    /\ walk[1].fn = "update_ledger"
    /\ walk[1].pc = "traverse"
    /\ walk[1].stack = <<>>
    /\ walk' = <<[walk[1] EXCEPT
                     !.order = filter_remove(Reverse(@), unconfirmed_proposers),
                     !.wb = Append(@, put_cf(PROPOSER_LEDGER_ORDER_CF, walk[1].level,
                                             filter_remove(Reverse(walk[1].order),
                                                           unconfirmed_proposers))),
                     !.added = @ \o filter_remove(Reverse(walk[1].order),
                                                  unconfirmed_proposers),
                     !.level = @ + 1, !.pc = "level"]>>
    /\ unconfirmed_proposers' = unconfirmed_proposers \ Range(walk[1].order)
    /\ UNCHANGED <<db, proposer_best_level, voter_best, unreferred_transactions,
                   unreferred_proposers, proposer_ledger_tip, voter_ledger_tips, aborted,
                   inflight, last_call, ret, repeated, vote_wb, leader_call, io_error,
                   leaders_read, threads>>

\* the ledger is committed and the transaction blocks of the removed and of
\* the added blocks are returned
UpdateLedgerReturn ==
    /\ walk /= <<>>
    /\ walk[1].fn = "update_ledger"
    /\ walk[1].pc = "write"
    /\ db' = write(db, walk[1].wb)
    /\ ret' = <<transaction_blocks_of(db, walk[1].added),
                transaction_blocks_of(db, walk[1].removed)>>
    /\ repeated' = (last_call = "update_ledger")
    /\ last_call' = "update_ledger"
    /\ walk' = <<>>
    /\ UNCHANGED <<proposer_best_level, voter_best, unreferred_transactions,
                   unreferred_proposers, unconfirmed_proposers, proposer_ledger_tip,
                   voter_ledger_tips, aborted, inflight, vote_wb, leader_call, io_error,
                   leaders_read, threads>>

\* the thread inside a call runs its next iteration or returns
WalkStep ==
    \/ VoteDiffStep
    \/ VoteDiffReturn
    \/ LedgerLevelStep
    \/ LedgerTraverseStep
    \/ LedgerLevelEnd
    \/ UpdateLedgerReturn

\* one thread: blocks are inserted, update_ledger and vote_diff are called,
\* each call runs to its return before the next begins
NextWalks ==
    \/ \E block \in ProposerBlocks(db, {}, {0}) :
           walk = <<>> /\ NumInserted(db) < MaxWalkBlocks /\ InsertProposer(block)
    \/ \E block \in VoterBlocks(db, {}) :
           walk = <<>> /\ NumInserted(db) < MaxWalkBlocks /\ InsertVoter(block)
    \/ UpdateLedgerBegin
    \/ \E chain_num \in Chains :
           \E from, to \in {h \in StoredVoters(db) : db[VOTER_NODE_CHAIN_CF][h] = chain_num} :
               VoteDiffBegin(from, to)
    \/ VoteDiffStep
    \/ VoteDiffReturn
    \/ LedgerLevelStep
    \/ LedgerTraverseStep
    \/ LedgerLevelEnd
    \/ UpdateLedgerReturn

\* the scheduler is fair to the thread inside a call
SpecWalks == Init /\ [][NextWalks]_vars /\ WF_vars(WalkStep)

\* ------------------------------------------ insert_block: the commit fails
\* the commits that fail in one run
MaxIoErrors == 1

\* a variant of failed_commit_keeps: the call takes its mark back
failed_commit_rolls_back(unreferred, call) == MapRemove(unreferred, call.hash)

\* the unreferred set when self.db.write(wb)? returns the error: the call
\* returns at once, what it marked stays marked
failed_commit_keeps(unreferred, call) == unreferred

\* self.db.write(wb) returns a storage error and insert_block returns it: the
\* batch is not applied, the steps after the commit are not run
InsertCommitFails(call) ==
    /\ ~aborted
    /\ call.pc = "commit"
    /\ Len(io_error) < MaxIoErrors
    /\ inflight' = inflight \ {call}
    /\ io_error' = Append(io_error, call)
    /\ unreferred_proposers' = failed_commit_keeps(unreferred_proposers, call)
    /\ unreferred_transactions' = failed_commit_keeps(unreferred_transactions, call)
    /\ last_call' = "insert_block"
    /\ repeated' = FALSE
    /\ vote_wb' = <<>>
    /\ UNCHANGED <<db, proposer_best_level, voter_best, unconfirmed_proposers,
                   proposer_ledger_tip, voter_ledger_tips, aborted, ret, leader_call, walk,
                   leaders_read, threads>>

\* insert_block called by concurrent threads on a store whose commits may fail
NextStorageErrors ==
    \/ \E block \in ProposerBlocks(db, InflightHashes, {0}) :
           /\ NumInserted(db) + Cardinality({call \in inflight : call.pc = "commit"})
                  < MaxConcurrentBlocks
           /\ InsertBegin(block)
    \/ \E block \in VoterBlocks(db, InflightHashes) :
           /\ NumInserted(db) + Cardinality({call \in inflight : call.pc = "commit"})
                  < MaxConcurrentBlocks
           /\ InsertBegin(block)
    \/ \E block \in TransactionBlocks(db, InflightHashes, {0}) :
           /\ NumInserted(db) + Cardinality({call \in inflight : call.pc = "commit"})
                  < MaxConcurrentBlocks
           /\ InsertBegin(block)
    \/ \E call \in inflight : InsertCommit(call)
    \/ \E call \in inflight : InsertCommitFails(call)
    \/ \E call \in inflight : InsertReturn(call)

SpecStorageErrors == Init /\ [][NextStorageErrors]_vars

\* ------------------------------------------ proposer blocks that refer deep
\* one proposer hash more than ProposerHashes: a leader can then refer to a
\* block of a level above its own, which takes three proposer blocks
DeepProposerHashes == ProposerHashes \cup {testkey + 1}

DeepProposerBlocks(d) ==
    UNION {ProposerBlocksOn(d, {0}, h, parent) :
              h \in {x \in DeepProposerHashes : ~contains_proposer(d, x)},
              parent \in StoredProposers(d)}

\* proposer and voter blocks are inserted and update_ledger is called
NextDeepRefs ==
    \/ \E block \in DeepProposerBlocks(db) :
           NumInserted(db) < MaxBlocks /\ InsertProposer(block)
    \/ \E block \in VoterBlocks(db, {}) :
           NumInserted(db) < MaxBlocks /\ InsertVoter(block)
    \/ UpdateLedger

SpecDeepRefs == Init /\ [][NextDeepRefs]_vars

\* ----------------------------------------- the ledger order of one level
\* the proposer blocks of a graph of refs given as such, and the refs of a
\* block besides its parent
MaxTraverseBlocks == 4
MaxTraverseRefs == 2

\* the ref lists of the blocks 1..MaxTraverseBlocks, as insert_block stores
\* them: the parent first, then the proposer_refs; a block refers to blocks
\* delivered before it (of a lower number)
RefLists(h) ==
    UNION {{<<parent>> \o prefs :
               prefs \in DistinctSeqs((1..(h - 1)) \ {parent}, MaxTraverseRefs)} :
              parent \in 0..(h - 1)}

\* the ref lists of the blocks 1..n, block after block
RECURSIVE RefListsUpTo(_)
RefListsUpTo(n) ==
    IF n = 0 THEN {<<>>}
    ELSE {Append(lists, list) : lists \in RefListsUpTo(n - 1), list \in RefLists(n)}

\* PROPOSER_REF_NEIGHBOR_CF of such blocks and of the genesis block
RefGraphs ==
    {[h \in 0..MaxTraverseBlocks |-> IF h = proposer_genesis THEN <<>> ELSE lists[h]] :
        lists \in RefListsUpTo(MaxTraverseBlocks)}

\* the traverse, the reversal and the filter applied to a graph of refs, a
\* set of unconfirmed blocks and a leader
LevelOrderCall(refs, unconfirmed, leader) ==
    /\ ~aborted
    /\ walk' = <<[fn |-> "level_order", refs |-> refs, unconfirmed |-> unconfirmed,
                  leader |-> leader,
                  order |-> level_order([db EXCEPT ![PROPOSER_REF_NEIGHBOR_CF] = refs],
                                        unconfirmed, leader)]>>
    /\ UNCHANGED <<db, proposer_best_level, voter_best, unreferred_transactions,
                   unreferred_proposers, unconfirmed_proposers, proposer_ledger_tip,
                   voter_ledger_tips, aborted, inflight, last_call, ret, repeated, vote_wb,
                   leader_call, io_error, leaders_read, threads>>

\* the ledger is built from inserted blocks, or the order of one level is
\* computed on a graph given as such
NextTraverse ==
    \/ walk = <<>> /\ NextDeepRefs
    \/ /\ walk = <<>>
       /\ NumInserted(db) = 0
       /\ \E refs \in RefGraphs :
              \E unconfirmed \in SUBSET (1..MaxTraverseBlocks), leader \in 1..MaxTraverseBlocks :
                  LevelOrderCall(refs, unconfirmed, leader)

SpecTraverse == Init /\ [][NextTraverse]_vars

\* ------------------------------------ a ledger that is taken back and rebuilt
\* the blocks of a run in which a confirmed proposer block with transactions
\* is deconfirmed: the voter blocks that confirm it, the fork that takes a
\* vote back, the proposer block and the transaction block it refers to
MaxReplayBlocks == 6
MaxReplayProposers == 1
MaxReplayTransactions == 1

NextReplay ==
    \/ \E block \in ProposerBlocks(db, {}, {0}) :
           /\ NumInserted(db) < MaxReplayBlocks
           /\ Cardinality(StoredProposers(db) \ {proposer_genesis}) < MaxReplayProposers
           /\ InsertProposer(block)
    \/ \E block \in VoterBlocks(db, {}) :
           NumInserted(db) < MaxReplayBlocks /\ InsertVoter(block)
    \/ \E block \in TransactionBlocks(db, {}, {0}) :
           /\ NumInserted(db) < MaxReplayBlocks
           /\ Cardinality(StoredTransactions(db)) < MaxReplayTransactions
           /\ InsertTransaction(block)
    \/ UpdateLedger

SpecReplay == Init /\ [][NextReplay]_vars

\* ---------------------------------- insert_block: concurrent proposer blocks
\* insert_block of proposer blocks called by concurrent threads, on parents
\* of any stored level
NextConcurrentProposers ==
    \/ \E block \in DeepProposerBlocks(db) :
           /\ NumInserted(db) + Cardinality({call \in inflight : call.pc = "commit"})
                  < MaxConcurrentBlocks
           /\ InsertBegin(block)
    \/ \E call \in inflight : InsertCommit(call)
    \/ \E call \in inflight : InsertReturn(call)

SpecConcurrentProposers == Init /\ [][NextConcurrentProposers]_vars

\* ------------------ update_ledger phase by phase, beside concurrent threads
\* what the call holds between its phases: the next voter chain, the batch
\* it builds, the affected range, the next level and the first changed level
ledger_call(pc, chain_num, wb, range, level, change_begin) ==
    [fn |-> "update_ledger", pc |-> pc, chain_num |-> chain_num, wb |-> wb,
     range |-> range, level |-> level, change_begin |-> change_begin]

\* the call is at the phase pc
ledger_call_at(pc) == walk /= <<>> /\ walk[1].fn = "update_ledger" /\ walk[1].pc = pc

\* the guards of proposer_ledger_tip and unconfirmed_proposers are held by
\* update_ledger from the deconfirm loop until it returns
ledger_guards_held ==
    walk /= <<>> /\ walk[1].fn = "update_ledger" /\ walk[1].pc \in {"level", "traverse", "write"}

\* a variant of vote_step_tip: the ledger tip of the chain stays where it was
vote_step_tip_kept(tips, chain_num, to) == tips

\* voter_ledger_tips[chain_num] = to
vote_step_tip(tips, chain_num, to) == [tips EXCEPT ![chain_num] = to]

\* one iteration of the loop over the voter chains, the call begins with
\* chain 0: the best block of the chain is read under its guard, the vote
\* diff from the ledger tip of the chain is batched
LedgerVoteStep(chain_num) ==
    /\ ~aborted
    /\ \/ walk = <<>> /\ chain_num = 0
       \/ ledger_call_at("votes") /\ walk[1].chain_num = chain_num
    /\ LET w == IF walk = <<>> THEN ledger_call("votes", 0, <<>>, empty_range, 0, None)
                ELSE walk[1]
           diff == vote_diff(db, voter_ledger_tips[chain_num], voter_best[chain_num][1])
       IN  /\ voter_ledger_tips' =
                  vote_step_tip(voter_ledger_tips, chain_num, voter_best[chain_num][1])
           /\ walk' = <<[w EXCEPT
                            !.chain_num = chain_num + 1,
                            !.wb = @ \o chain_vote_ops(chain_num, diff[1], diff[2]),
                            !.range = range_include_diff(db, @, diff),
                            !.pc = IF chain_num + 1 >= voter_chains THEN "vote_write"
                                   ELSE "votes"]>>
    /\ UNCHANGED <<db, proposer_best_level, voter_best, unreferred_transactions,
                   unreferred_proposers, unconfirmed_proposers, proposer_ledger_tip,
                   aborted, inflight, last_call, ret, repeated, vote_wb, leader_call,
                   io_error, leaders_read, threads>>

\* the vote edits are committed, the affected range is lowered to the level
\* after the ledger tip
LedgerVoteWrite ==
    /\ ~aborted
    /\ ledger_call_at("vote_write")
    /\ IF write_unreachable(db, walk[1].wb)
       THEN /\ aborted' = TRUE
            /\ UNCHANGED <<db, walk, vote_wb, leaders_read, threads>>
       ELSE /\ db' = write(db, walk[1].wb)
            /\ vote_wb' = walk[1].wb
            /\ walk' = <<[walk[1] EXCEPT
                             !.wb = <<>>,
                             !.range = range_from_tip(@, proposer_ledger_tip),
                             !.level = range_from_tip(walk[1].range, proposer_ledger_tip).start,
                             !.pc = "leaders"]>>
            /\ UNCHANGED aborted
    /\ UNCHANGED <<proposer_best_level, voter_best, unreferred_transactions,
                   unreferred_proposers, unconfirmed_proposers, proposer_ledger_tip,
                   voter_ledger_tips, inflight, last_call, ret, repeated, leader_call,
                   io_error, leaders_read, threads>>

\* one iteration of the loop over the affected levels: the recorded leader
\* is read, the new leader is computed from the votes in the store and the
\* best levels read now, a change is batched
LedgerLeaderStep ==
    /\ ~aborted
    /\ ledger_call_at("leaders")
    /\ walk[1].level < walk[1].range.end
    /\ IF proposer_leader_panics(db, walk[1].level)
       THEN /\ aborted' = TRUE
            /\ UNCHANGED walk
       ELSE /\ walk' =
                   IF new_leader_of(db, voter_best, walk[1].level)
                          /= get_pinned_cf(db, PROPOSER_LEADER_SEQUENCE_CF, walk[1].level)
                   THEN <<[walk[1] EXCEPT
                              !.wb = Append(@, leader_op(walk[1].level,
                                                         new_leader_of(db, voter_best,
                                                                       walk[1].level))),
                              !.change_begin = IF is_some(@) THEN @ ELSE Some(walk[1].level),
                              !.level = @ + 1]>>
                   ELSE <<[walk[1] EXCEPT !.level = @ + 1]>>
            /\ UNCHANGED aborted
    /\ UNCHANGED <<db, proposer_best_level, voter_best, unreferred_transactions,
                   unreferred_proposers, unconfirmed_proposers, proposer_ledger_tip,
                   voter_ledger_tips, inflight, last_call, ret, repeated, vote_wb,
                   leader_call, io_error, leaders_read, threads>>

\* the new leaders are committed; the call returns two empty lists when no
\* leader changed
LedgerLeaderWrite ==
    /\ ~aborted
    /\ ledger_call_at("leaders")
    /\ walk[1].level >= walk[1].range.end
    /\ db' = write(db, walk[1].wb)
    /\ IF is_some(walk[1].change_begin)
       THEN /\ walk' = <<[walk[1] EXCEPT !.wb = <<>>, !.pc = "ledger"]>>
            /\ UNCHANGED <<ret, last_call, repeated>>
       ELSE /\ walk' = <<>>
            /\ ret' = <<<<>>, <<>>>>
            /\ repeated' = (last_call = "update_ledger")
            /\ last_call' = "update_ledger"
    /\ UNCHANGED <<proposer_best_level, voter_best, unreferred_transactions,
                   unreferred_proposers, unconfirmed_proposers, proposer_ledger_tip,
                   voter_ledger_tips, aborted, inflight, vote_wb, leader_call, io_error,
                   leaders_read, threads>>

\* the guards of the ledger tip and of the unconfirmed proposers are taken,
\* the levels from the first changed level to the ledger tip are deconfirmed
LedgerDeconfirm ==
    /\ ~aborted
    /\ ledger_call_at("ledger")
    /\ walk' = <<ledger_loop_begin(db, walk[1].change_begin, proposer_ledger_tip, None)>>
    /\ unconfirmed_proposers' = unconfirmed_proposers \cup Range(walk'[1].removed)
    /\ UNCHANGED <<db, proposer_best_level, voter_best, unreferred_transactions,
                   unreferred_proposers, proposer_ledger_tip, voter_ledger_tips, aborted,
                   inflight, last_call, ret, repeated, vote_wb, leader_call, io_error,
                   leaders_read, threads>>

\* ---- proposer blocks inserted by concurrent threads beside update_ledger
MaxInterleavedBlocks == 4

\* insert_block of proposer blocks step by step (the block waits for the
\* guard of the unconfirmed proposers), voter blocks as whole calls,
\* update_ledger phase by phase
NextInterleaved ==
    \/ \E block \in ProposerBlocks(db, InflightHashes, {0}) :
           /\ ~ledger_guards_held
           /\ NumInserted(db) + Cardinality({call \in inflight : call.pc = "commit"})
                  < MaxInterleavedBlocks
           /\ InsertBegin(block)
    \/ \E call \in inflight : InsertCommit(call)
    \/ \E call \in inflight : InsertReturn(call)
    \/ \E block \in VoterBlocks(db, {}) :
           /\ NumInserted(db) + Cardinality({call \in inflight : call.pc = "commit"})
                  < MaxInterleavedBlocks
           /\ InsertVoter(block)
    \/ \E chain_num \in Chains : LedgerVoteStep(chain_num)
    \/ LedgerVoteWrite
    \/ LedgerLeaderStep
    \/ LedgerLeaderWrite
    \/ LedgerDeconfirm
    \/ LedgerLevelStep
    \/ LedgerTraverseStep
    \/ LedgerLevelEnd
    \/ UpdateLedgerReturn

SpecInterleaved == Init /\ [][NextInterleaved]_vars

\* ------------------------------ proposer_leaders() beside update_ledger
\* proposer_leaders() reaches unreachable!(): the snapshot holds no leader
\* for a level up to the ledger tip
proposer_leaders_unreachable(d, tip) ==
    \E level \in 0..tip : ~is_some(get_pinned_cf(d, PROPOSER_LEADER_SEQUENCE_CF, level))

\* proposer_leaders(): under the guard of the ledger tip the snapshot is taken
\* and the tip is read, the guard is dropped, the leaders of the levels
\* 0..=tip are read from the snapshot
ProposerLeaders ==
    /\ ~aborted
    /\ ~ledger_guards_held
    /\ leaders_read' =
           <<[tip |-> proposer_ledger_tip,
              unreachable |-> proposer_leaders_unreachable(db, proposer_ledger_tip),
              leaders |-> IF proposer_leaders_unreachable(db, proposer_ledger_tip) THEN <<>>
                          ELSE proposer_leaders(db, proposer_ledger_tip)]>>
    /\ aborted' = proposer_leaders_unreachable(db, proposer_ledger_tip)
    /\ UNCHANGED <<db, proposer_best_level, voter_best, unreferred_transactions,
                   unreferred_proposers, unconfirmed_proposers, proposer_ledger_tip,
                   voter_ledger_tips, inflight, last_call, ret, repeated, vote_wb,
                   leader_call, walk, io_error, threads>>

MaxQueryBlocks == 5

\* blocks are inserted between the calls of update_ledger; update_ledger runs
\* phase by phase on its thread, proposer_leaders() is called on another
NextLeadersQuery ==
    \/ \E block \in ProposerBlocks(db, {}, {0}) :
           /\ walk = <<>>
           /\ NumInserted(db) < MaxQueryBlocks
           /\ Cardinality(StoredProposers(db) \ {proposer_genesis}) < MaxReplayProposers
           /\ InsertProposer(block)
    \/ \E block \in VoterBlocks(db, {}) :
           /\ walk = <<>>
           /\ NumInserted(db) < MaxQueryBlocks
           /\ InsertVoter(block)
    \/ ProposerLeaders
    \/ \E chain_num \in Chains : LedgerVoteStep(chain_num)
    \/ LedgerVoteWrite
    \/ LedgerLeaderStep
    \/ LedgerLeaderWrite
    \/ LedgerDeconfirm
    \/ LedgerLevelStep
    \/ LedgerTraverseStep
    \/ LedgerLevelEnd
    \/ UpdateLedgerReturn

SpecLeadersQuery == Init /\ [][NextLeadersQuery]_vars

\* ------------------------------------------------------------- the guards
\* the seven guarded fields of BlockChain; voter_best is one guard a chain
proposer_best_level_guard == <<"proposer_best_level", 0>>
voter_best_guard(chain_num) == <<"voter_best", chain_num>>
unreferred_transactions_guard == <<"unreferred_transactions", 0>>
unreferred_proposers_guard == <<"unreferred_proposers", 0>>
unconfirmed_proposers_guard == <<"unconfirmed_proposers", 0>>
proposer_ledger_tip_guard == <<"proposer_ledger_tip", 0>>
voter_ledger_tips_guard == <<"voter_ledger_tips", 0>>

\* field.lock().unwrap() and the drop of the guard, explicit or at the end
\* of its scope
lock(guard) == [op |-> "lock", guard |-> guard]
drop(guard) == [op |-> "drop", guard |-> guard]

\* a guard taken and dropped with no other taken in between
lock_drop(guard) == <<lock(guard), drop(guard)>>

\* insert_block, by the content of the block
insert_proposer_guards ==
    lock_drop(unreferred_proposers_guard) \o lock_drop(unconfirmed_proposers_guard)
    \o lock_drop(proposer_best_level_guard) \o lock_drop(unreferred_proposers_guard)
    \o lock_drop(unreferred_transactions_guard)
insert_voter_guards(self_chain) == lock_drop(voter_best_guard(self_chain))
insert_transaction_guards == lock_drop(unreferred_transactions_guard)

\* update_ledger: the loop over the voter chains under the guard of the
\* voter ledger tips
RECURSIVE vote_loop_guards(_)
vote_loop_guards(chain_num) ==
    IF chain_num >= voter_chains THEN <<>>
    ELSE lock_drop(voter_best_guard(chain_num)) \o vote_loop_guards(chain_num + 1)

\* update_ledger: the ledger tip read when the affected range is not empty
range_guards == lock_drop(proposer_ledger_tip_guard)

\* proposer_leader: the best level of the chain of each main chain vote
leader_guards(chains) ==
    Concat([i \in 1..Len(chains) |-> lock_drop(voter_best_guard(chains[i]))])

\* a variant of ledger_guards: the proposer best level is read under the two
\* guards
ledger_guards_reads_best ==
    << lock(proposer_ledger_tip_guard), lock(unconfirmed_proposers_guard),
       lock(proposer_best_level_guard), drop(proposer_best_level_guard),
       drop(unconfirmed_proposers_guard), drop(proposer_ledger_tip_guard) >>

\* update_ledger: the ledger from the first changed level, both guards are
\* dropped at the end of the block, the later one first
ledger_guards ==
    << lock(proposer_ledger_tip_guard), lock(unconfirmed_proposers_guard),
       drop(unconfirmed_proposers_guard), drop(proposer_ledger_tip_guard) >>

\* update_ledger: no vote changed; votes changed (the chains of the votes the
\* leader loop reads) and no leader did; a leader changed
MaxGuardVotes == 2
update_ledger_guards ==
    {<<lock(voter_ledger_tips_guard)>> \o vote_loop_guards(0)
         \o <<drop(voter_ledger_tips_guard)>>}
    \cup {<<lock(voter_ledger_tips_guard)>> \o vote_loop_guards(0)
              \o <<drop(voter_ledger_tips_guard)>> \o range_guards
              \o leader_guards(chains) \o ledger :
          chains \in UNION {[1..n -> Chains] : n \in 0..MaxGuardVotes},
          ledger \in {<<>>, ledger_guards}}

\* the queries
best_proposer_guards == lock_drop(proposer_best_level_guard)
best_voter_guards(chain_num) == lock_drop(voter_best_guard(chain_num))
unreferred_proposers_guards == lock_drop(unreferred_proposers_guard)
unreferred_transactions_guards == lock_drop(unreferred_transactions_guard)
proposer_leaders_guards == lock_drop(proposer_ledger_tip_guard)
proposer_transaction_in_ledger_guards == lock_drop(proposer_ledger_tip_guard)

\* lagging_level(): both guards are held to the end of the function
lagging_level_guards ==
    << lock(proposer_best_level_guard), lock(proposer_ledger_tip_guard),
       drop(proposer_ledger_tip_guard), drop(proposer_best_level_guard) >>

\* proposer_bottom_tip(): the best level alone
proposer_bottom_tip_guards == lock_drop(proposer_best_level_guard)

\* voter_bottom_tip(): the best block of each chain in turn
voter_bottom_tip_guards == vote_loop_guards(0)

\* dump(): the best blocks are read under the guard of the ledger tip, the
\* unreferred transactions later
dump_guards ==
    <<lock(proposer_ledger_tip_guard)>> \o vote_loop_guards(0)
    \o <<drop(proposer_ledger_tip_guard)>> \o lock_drop(unreferred_transactions_guard)

\* the calls of the threads other than the ledger updater
GuardCalls ==
    {<<"insert_block", insert_proposer_guards>>,
     <<"insert_block", insert_transaction_guards>>,
     <<"best_proposer", best_proposer_guards>>,
     <<"unreferred_proposers", unreferred_proposers_guards>>,
     <<"unreferred_transactions", unreferred_transactions_guards>>,
     <<"proposer_leaders", proposer_leaders_guards>>,
     <<"proposer_transaction_in_ledger", proposer_transaction_in_ledger_guards>>,
     <<"lagging_level", lagging_level_guards>>,
     <<"proposer_bottom_tip", proposer_bottom_tip_guards>>,
     <<"voter_bottom_tip", voter_bottom_tip_guards>>,
     <<"dump", dump_guards>>}
    \cup {<<"insert_block", insert_voter_guards(c)>> : c \in Chains}
    \cup {<<"best_voter", best_voter_guards(c)>> : c \in Chains}

\* the guards held by some thread
HeldGuards == UNION {threads[t].held : t \in GuardThreads}

\* the thread enters a call
GuardCall(t, fn, guards) ==
    /\ threads[t].fn = "idle"
    /\ threads' = [threads EXCEPT ![t] = [fn |-> fn, rest |-> guards, held |-> {}]]
    /\ UNCHANGED <<db, proposer_best_level, voter_best, unreferred_transactions,
                   unreferred_proposers, unconfirmed_proposers, proposer_ledger_tip,
                   voter_ledger_tips, aborted, inflight, last_call, ret, repeated, vote_wb,
                   leader_call, walk, io_error, leaders_read>>

\* what the thread is after its next lock or drop; it has returned when
\* nothing is left to do
guard_step(thread, held) ==
    IF Len(thread.rest) = 1 THEN idle
    ELSE [thread EXCEPT !.rest = Tail(@), !.held = held]

\* lock(): the thread waits until no thread holds the guard (a std Mutex is
\* not reentrant: the thread waits also when it holds the guard itself)
GuardLock(t) ==
    /\ threads[t].rest /= <<>>
    /\ threads[t].rest[1].op = "lock"
    /\ threads[t].rest[1].guard \notin HeldGuards
    /\ threads' = [threads EXCEPT
                      ![t] = guard_step(@, @.held \cup {threads[t].rest[1].guard})]
    /\ UNCHANGED <<db, proposer_best_level, voter_best, unreferred_transactions,
                   unreferred_proposers, unconfirmed_proposers, proposer_ledger_tip,
                   voter_ledger_tips, aborted, inflight, last_call, ret, repeated, vote_wb,
                   leader_call, walk, io_error, leaders_read>>

\* the guard is dropped
GuardDrop(t) ==
    /\ threads[t].rest /= <<>>
    /\ threads[t].rest[1].op = "drop"
    /\ threads' = [threads EXCEPT
                      ![t] = guard_step(@, @.held \ {threads[t].rest[1].guard})]
    /\ UNCHANGED <<db, proposer_best_level, voter_best, unreferred_transactions,
                   unreferred_proposers, unconfirmed_proposers, proposer_ledger_tip,
                   voter_ledger_tips, aborted, inflight, last_call, ret, repeated, vote_wb,
                   leader_call, walk, io_error, leaders_read>>

\* one thread updates the ledger, the others insert blocks and query
NextGuards ==
    \/ \E guards \in update_ledger_guards : GuardCall(1, "update_ledger", guards)
    \/ \E t \in GuardThreads \ {1} : \E call \in GuardCalls : GuardCall(t, call[1], call[2])
    \/ \E t \in GuardThreads : GuardLock(t)
    \/ \E t \in GuardThreads : GuardDrop(t)

SpecGuards == Init /\ [][NextGuards]_vars



\* ---------------------- update_ledger beside concurrent voter insert_block
MaxRaceBlocks == 4

\* voter blocks are inserted by concurrent threads step by step while one
\* thread runs update_ledger phase by phase; proposer blocks are inserted
\* when the guard of the unconfirmed proposers is free
NextVoterRace ==
    \/ \E block \in ProposerBlocks(db, InflightHashes, {0}) :
           /\ ~ledger_guards_held
           /\ NumInserted(db) + Cardinality({call \in inflight : call.pc = "commit"})
                  < MaxRaceBlocks
           /\ Cardinality(StoredProposers(db) \ {proposer_genesis}) < MaxReplayProposers
           /\ InsertProposer(block)
    \/ \E block \in VoterBlocks(db, InflightHashes) :
           /\ NumInserted(db) + Cardinality({call \in inflight : call.pc = "commit"})
                  < MaxRaceBlocks
           /\ InsertBegin(block)
    \/ \E call \in inflight : InsertCommit(call)
    \/ \E call \in inflight : InsertReturn(call)
    \/ \E chain_num \in Chains : LedgerVoteStep(chain_num)
    \/ LedgerVoteWrite
    \/ LedgerLeaderStep
    \/ LedgerLeaderWrite
    \/ LedgerDeconfirm
    \/ LedgerLevelStep
    \/ LedgerTraverseStep
    \/ LedgerLevelEnd
    \/ UpdateLedgerReturn

SpecVoterRace == Init /\ [][NextVoterRace]_vars



\* ================================================================ properties
leader_sequence(d, level) == get_pinned_cf(d, PROPOSER_LEADER_SEQUENCE_CF, level)
ProposerLevels(d) == DOMAIN d[PROPOSER_TREE_LEVEL_CF]
NoRepeat(list) == \A i, j \in 1..Len(list) : i /= j => list[i] /= list[j]
IsPrefix(a, b) == Len(a) <= Len(b) /\ SubSeq(b, 1, Len(a)) = a
update_ledger_returned == last_call = "update_ledger" /\ ~aborted

\* the hashes of the ledger_order entries of all levels
LedgerHashes(d) ==
    UNION {Range(d[PROPOSER_LEDGER_ORDER_CF][l]) : l \in DOMAIN d[PROPOSER_LEDGER_ORDER_CF]}

\* the ledger_order entries of the levels 0..tip, concatenated
Ledger(d, tip) == Concat([l \in 1..(tip + 1) |-> d[PROPOSER_LEDGER_ORDER_CF][l - 1]])

\* C1: right after new(path, config), best_proposer() is the proposer genesis
\* block, best_voter(c) is the voter genesis block of chain c at level 0,
\* unreferred_proposers() is [proposer_genesis], unreferred_transactions() is
\* empty, leader_sequence[0] is proposer_genesis, ledger_order[0] is
\* [proposer_genesis], no proposer is unconfirmed, the proposer best level and
\* the ledger tip are 0, and the main chain votes of proposer_genesis are
\* [(0,0), (1,0), ..., (voter_chains-1,0)].
C1_AfterNew ==
    last_call = "new" =>
        /\ best_proposer(db, proposer_best_level) = proposer_genesis
        /\ \A c \in Chains : /\ best_voter(voter_best, c) = voter_genesis[c]
                             /\ voter_best[c][2] = 0
                             /\ voter_ledger_tips[c] = voter_genesis[c]
        /\ sorted_by_timestamp(unreferred_proposers) = {<<proposer_genesis>>}
        /\ sorted_by_timestamp(unreferred_transactions) = {<<>>}
        /\ leader_sequence(db, 0) = Some(proposer_genesis)
        /\ get_pinned_cf(db, PROPOSER_LEDGER_ORDER_CF, 0) = Some(<<proposer_genesis>>)
        /\ unconfirmed_proposers = {}
        /\ proposer_best_level = 0
        /\ proposer_ledger_tip = 0
        /\ main_chain_votes(db, proposer_genesis) = [i \in 1..voter_chains |-> <<i - 1, 0>>]

C1_Witness ==
    /\ last_call = "new"
    /\ Len(main_chain_votes(db, proposer_genesis)) = voter_chains
    /\ StoredProposers(db) = {proposer_genesis}

\* C2: after update_ledger returns, the hashes of the ledger_order entries of
\* all levels are disjoint from the unconfirmed proposers, and together they
\* are all the proposer hashes inserted (the genesis block included).
C2_LedgerPartition ==
    update_ledger_returned =>
        /\ LedgerHashes(db) \cap unconfirmed_proposers = {}
        /\ LedgerHashes(db) \cup unconfirmed_proposers = StoredProposers(db)

C2_Witness ==
    /\ update_ledger_returned
    /\ proposer_ledger_tip >= 1
    /\ unconfirmed_proposers /= {}
    /\ LedgerHashes(db) /= {proposer_genesis}

\* C3: when update_ledger returns right after update_ledger returned, with no
\* insert_block between, it returns (empty, empty) and leaves the leader
\* sequence, the ledger order, the main chain votes, the unconfirmed set, the
\* proposer ledger tip and the voter ledger tips as they were.
C3_SecondCallChangesNothing ==
    [][(last_call = "update_ledger" /\ last_call' = "update_ledger" /\ repeated')
          => /\ ret' = <<<<>>, <<>>>>
             /\ db'[PROPOSER_LEADER_SEQUENCE_CF] = db[PROPOSER_LEADER_SEQUENCE_CF]
             /\ db'[PROPOSER_LEDGER_ORDER_CF] = db[PROPOSER_LEDGER_ORDER_CF]
             /\ db'[PROPOSER_NODE_VOTE_CF] = db[PROPOSER_NODE_VOTE_CF]
             /\ unconfirmed_proposers' = unconfirmed_proposers
             /\ proposer_ledger_tip' = proposer_ledger_tip
             /\ voter_ledger_tips' = voter_ledger_tips]_vars

C3_Witness ==
    /\ update_ledger_returned
    /\ repeated
    /\ proposer_ledger_tip >= 1
    /\ \E p \in Range(Ledger(db, proposer_ledger_tip)) :
           db[TRANSACTION_REF_NEIGHBOR_CF][p] /= <<>>

\* C4: after update_ledger returns, ledger_order[L] is present for every level
\* L up to the proposer ledger tip, and no proposer hash occurs twice in the
\* ledger, neither within a level nor in two levels.
C4_LedgerContinuousNoDuplicates ==
    update_ledger_returned =>
        /\ \A L \in 0..proposer_ledger_tip : L \in DOMAIN db[PROPOSER_LEDGER_ORDER_CF]
        /\ NoRepeat(Ledger(db, proposer_ledger_tip))

C4_Witness ==
    /\ update_ledger_returned
    /\ proposer_ledger_tip >= 1
    /\ Len(db[PROPOSER_LEDGER_ORDER_CF][1]) >= 2

\* C5: every proposer block other than the genesis block has its parent in
\* the store, and its level is the level of its parent plus one.
C5_ProposerLevel ==
    \A p \in StoredProposers(db) \ {proposer_genesis} :
        /\ p \in DOMAIN db[PARENT_NEIGHBOR_CF]
        /\ db[PARENT_NEIGHBOR_CF][p] \in StoredProposers(db)
        /\ db[PROPOSER_NODE_LEVEL_CF][p]
               = db[PROPOSER_NODE_LEVEL_CF][db[PARENT_NEIGHBOR_CF][p]] + 1

C5_Witness ==
    \E p \in StoredProposers(db) :
        /\ db[PROPOSER_NODE_LEVEL_CF][p] = 2
        /\ db[PROPOSER_NODE_LEVEL_CF][db[PARENT_NEIGHBOR_CF][p]] = 1

\* C6: every voter block other than a voter genesis block is on the chain of
\* its voter parent, one level above it, whatever chain number the block
\* itself carries.
C6_VoterChainLevel ==
    \A v \in DOMAIN db[VOTER_PARENT_NEIGHBOR_CF] :
        /\ db[VOTER_PARENT_NEIGHBOR_CF][v] \in StoredVoters(db)
        /\ db[VOTER_NODE_CHAIN_CF][v] = db[VOTER_NODE_CHAIN_CF][db[VOTER_PARENT_NEIGHBOR_CF][v]]
        /\ db[VOTER_NODE_LEVEL_CF][v]
               = db[VOTER_NODE_LEVEL_CF][db[VOTER_PARENT_NEIGHBOR_CF][v]] + 1

C6_Witness ==
    \E v \in DOMAIN db[VOTER_PARENT_NEIGHBOR_CF] :
        /\ db[VOTER_NODE_CHAIN_CF][v] = voter_chains - 1
        /\ db[VOTER_NODE_LEVEL_CF][v] = 2

\* the vote count of a proposer block, and the voter blocks that vote for it
vote_count(d, p) ==
    IF p \in DOMAIN d[PROPOSER_VOTE_COUNT_CF] THEN d[PROPOSER_VOTE_COUNT_CF][p] ELSE 0
VotersOf(d, p) == {v \in DOMAIN d[VOTE_NEIGHBOR_CF] : contains(d[VOTE_NEIGHBOR_CF][v], p)}

\* C7: under concurrent insert_block calls, the vote count of every proposer
\* block is the number of voter blocks (genesis blocks included) whose vote
\* list holds it, and no step, update_ledger and reorganisations included,
\* decreases it.
C7_VoteCount ==
    /\ [](\A p \in StoredProposers(db) : vote_count(db, p) = Cardinality(VotersOf(db, p)))
    /\ [][\A p \in StoredProposers(db) : vote_count(db', p) >= vote_count(db, p)]_vars

C7_Witness ==
    \E c1 \in inflight : \E c2 \in inflight :
        /\ c1.hash /= c2.hash
        /\ c1.content = "Voter" /\ c1.pc = "return"
        /\ c2.content = "Voter" /\ c2.pc = "return"
        /\ \E p \in StoredProposers(db) \ {proposer_genesis} :
               /\ {c1.hash, c2.hash} \subseteq VotersOf(db, p)
               /\ vote_count(db, p) >= 2

\* C8: under concurrent insert_block calls, siblings of one level included,
\* the level index of L holds exactly the proposer blocks whose level is L,
\* each once, and a commit only appends to it (commit order).
C8_LevelIndex ==
    /\ [](/\ \A L \in ProposerLevels(db) :
                /\ Range(db[PROPOSER_TREE_LEVEL_CF][L])
                       = {p \in StoredProposers(db) : db[PROPOSER_NODE_LEVEL_CF][p] = L}
                /\ NoRepeat(db[PROPOSER_TREE_LEVEL_CF][L])
          /\ \A p \in StoredProposers(db) : db[PROPOSER_NODE_LEVEL_CF][p] \in ProposerLevels(db))
    /\ [][\A L \in ProposerLevels(db) :
              /\ L \in ProposerLevels(db')
              /\ IsPrefix(db[PROPOSER_TREE_LEVEL_CF][L], db'[PROPOSER_TREE_LEVEL_CF][L])
              /\ Len(db'[PROPOSER_TREE_LEVEL_CF][L]) <= Len(db[PROPOSER_TREE_LEVEL_CF][L]) + 1]_vars

C8_Witness ==
    \E c1 \in inflight : \E c2 \in inflight :
        /\ c1.hash /= c2.hash
        /\ c1.content = "Proposer" /\ c1.pc = "return"
        /\ c2.content = "Proposer" /\ c2.pc = "return"
        /\ c1.self_level = c2.self_level
        /\ Len(db[PROPOSER_TREE_LEVEL_CF][c1.self_level]) = 2

\* C9: whenever a top-level operation has returned, the main chain votes of
\* every proposer block hold at most one pair (c, l) of each voter chain c,
\* also when update_ledger applied a reorganisation of chain c as removals
\* followed by additions in one batch.
C9_OneVotePerChain ==
    \A b \in DOMAIN db[PROPOSER_NODE_VOTE_CF] :
        \A i, j \in 1..Len(db[PROPOSER_NODE_VOTE_CF][b]) :
            i /= j => db[PROPOSER_NODE_VOTE_CF][b][i][1] /= db[PROPOSER_NODE_VOTE_CF][b][j][1]

C9_Witness ==
    /\ update_ledger_returned
    /\ \E i, j \in 1..Len(vote_wb) :
           /\ i < j
           /\ vote_wb[i].key = vote_wb[j].key
           /\ ~vote_wb[i].value[1][1]
           /\ vote_wb[j].value[1][1]
           /\ vote_wb[i].value[1][2] = vote_wb[j].value[1][2]
           /\ vote_wb[i].value[1][3] /= vote_wb[j].value[1][3]

\* the store of a node that received the same blocks in the same order and
\* has not called update_ledger since new()
never_updated(d) ==
    [d EXCEPT ![PROPOSER_LEADER_SEQUENCE_CF] = [l \in {0} |-> proposer_genesis],
              ![PROPOSER_LEDGER_ORDER_CF] = [l \in {0} |-> <<proposer_genesis>>],
              ![PROPOSER_NODE_VOTE_CF] =
                  [p \in {proposer_genesis} |-> [i \in 1..voter_chains |-> <<i - 1, 0>>]]]

\* what that node holds after its first update_ledger
updated_once(d, vbest) ==
    update_ledger(never_updated(d), vbest, new_voter_ledger_tips, 0,
                  StoredProposers(d) \ {proposer_genesis})

\* the votes of each chain on the blocks of a level, and their depths
votes_and_depths(d, vbest, L) ==
    [b \in Range(d[PROPOSER_TREE_LEVEL_CF][L]) |->
        {<<vote[1], vote_depth(vbest, vote)>> : vote \in Range(main_chain_votes(d, b))}]

same_votes_and_depths(d1, d2, vbest) ==
    \A L \in ProposerLevels(d1) : votes_and_depths(d1, vbest, L) = votes_and_depths(d2, vbest, L)

same_leaders(d1, d2) ==
    \A L \in ProposerLevels(d1) : leader_sequence(d1, L) = leader_sequence(d2, L)

\* the levels update_ledger refreshes when called in this state
affected_levels(r) == {L \in ProposerLevels(db) : r.start <= L /\ L < r.end}
AffectedLevels ==
    affected_levels(range_from_tip(
        vote_phase(db, voter_best, 0, voter_ledger_tips, <<>>, empty_range).range,
        proposer_ledger_tip))

\* C10 as claimed: after update_ledger returns, the leader recorded at every
\* level is the one any other history ending in the same votes and depths
\* records (here: the same inserts followed by a single update_ledger), and
\* it is what the confirmation rule gives in the current state.
C10_LeaderDeterminedByVotes ==
    update_ledger_returned =>
        /\ same_votes_and_depths(db, updated_once(db, voter_best).db, voter_best)
               => same_leaders(db, updated_once(db, voter_best).db)
        /\ \A L \in ProposerLevels(db) \ {0} :
               leader_sequence(db, L) = new_leader_of(db, voter_best, L)

\* C10 amended: update_ledger records, at each level of the affected range
\* (the levels whose main chain votes changed, from the ledger tip + 1 on),
\* the leader the confirmation rule gives for the votes and depths after the
\* call, with the deconfirm quantile when a leader was recorded at the level
\* before the call and the confirm quantile when none was; the leader of
\* every other level stays as recorded by earlier calls.
C10_LeaderRefreshedInAffectedRange ==
    [][(last_call' = "update_ledger" /\ ~aborted' /\ inflight = {} /\ vars' /= vars)
          => \A L \in ProposerLevels(db) \ {0} :
                 leader_sequence(db', L) =
                     IF L \in AffectedLevels
                     THEN IF is_some(leader_sequence(db, L))
                          THEN proposer_leader(db', voter_best, L, quantile_epsilon_deconfirm)
                          ELSE proposer_leader(db', voter_best, L, quantile_epsilon_confirm)
                     ELSE leader_sequence(db, L)]_vars

C10_Witness ==
    /\ update_ledger_returned
    /\ \E L \in ProposerLevels(db) \ {0} :
           /\ is_some(leader_sequence(db, L))
           /\ proposer_leader(db, voter_best, L, quantile_epsilon_confirm) = None

\* what the queries return in the current state
query_results ==
    [best_proposer |-> best_proposer(db, proposer_best_level),
     best_voter |-> [c \in Chains |-> best_voter(voter_best, c)],
     unreferred_proposers |-> sorted_by_timestamp(unreferred_proposers),
     unreferred_transactions |-> sorted_by_timestamp(unreferred_transactions),
     proposer_leaders |-> proposer_leaders(db, proposer_ledger_tip),
     lagging_level |-> lagging_level(proposer_best_level, proposer_ledger_tip)]

\* C11: after blocks were inserted (their parents stored before them) and the
\* store is reopened at the same path with open(path, config), every query
\* (best_proposer, best_voter(c), unreferred_proposers,
\* unreferred_transactions, proposer_leaders, lagging_level) returns what it
\* returned before the reopen.
C11_ReopenRoundTrip ==
    [][last_call' = "open" => query_results' = query_results]_vars

\* the proposer hashes some stored proposer block names as its parent or in
\* its proposer_refs
ReferredProposers(d) ==
    UNION {Range(d[PROPOSER_REF_NEIGHBOR_CF][p]) : p \in DOMAIN d[PROPOSER_REF_NEIGHBOR_CF]}

\* C12: with insert_block calls run one at a time, unreferred_proposers() is
\* exactly the set of stored proposer hashes, genesis included, that no stored
\* proposer block names as its parent or in its proposer_refs; right after
\* the insert of proposer P, P is in the set, its parent and its
\* proposer_refs are not.
C12_UnreferredProposers ==
    /\ [](\A list \in sorted_by_timestamp(unreferred_proposers) :
              Range(list) = StoredProposers(db) \ ReferredProposers(db))
    /\ [][\A P \in StoredProposers(db') \ StoredProposers(db) :
              /\ P \in DOMAIN unreferred_proposers'
              /\ Range(db'[PROPOSER_REF_NEIGHBOR_CF][P]) \cap DOMAIN unreferred_proposers' = {}]_vars

C12_Witness ==
    \E P \in DOMAIN unreferred_proposers :
        /\ Len(db[PROPOSER_REF_NEIGHBOR_CF][P]) >= 2
        /\ StoredProposers(db) \ DOMAIN unreferred_proposers /= {proposer_genesis}

\* the transaction hashes some stored proposer block lists in its
\* transaction_refs
ReferredTransactions(d) ==
    UNION {Range(d[TRANSACTION_REF_NEIGHBOR_CF][p]) :
              p \in DOMAIN d[TRANSACTION_REF_NEIGHBOR_CF]}

\* C13: with insert_block calls run one at a time, unreferred_transactions()
\* is exactly the set of stored transaction block hashes that no stored
\* proposer block lists in its transaction_refs: the insert of a transaction
\* block adds it, the insert of a proposer block removes the ones it lists
\* and no other.
C13_UnreferredTransactions ==
    /\ [](\A list \in sorted_by_timestamp(unreferred_transactions) :
              Range(list) = StoredTransactions(db) \ ReferredTransactions(db))
    /\ [][/\ \A T \in StoredTransactions(db') \ StoredTransactions(db) :
                 T \in DOMAIN unreferred_transactions'
          /\ \A P \in StoredProposers(db') \ StoredProposers(db) :
                 DOMAIN unreferred_transactions' =
                     DOMAIN unreferred_transactions
                         \ Range(db'[TRANSACTION_REF_NEIGHBOR_CF][P])]_vars

C13_Witness ==
    /\ last_call = "insert_block"
    /\ \E T \in StoredTransactions(db) :
           /\ T \in ReferredTransactions(db)
           /\ T \notin DOMAIN unreferred_transactions
    /\ \E P \in StoredProposers(db) \ {proposer_genesis} :
           db[TRANSACTION_REF_NEIGHBOR_CF][P] = <<>>

\* the greatest element of a non-empty set of numbers
Max(S) == CHOOSE x \in S : \A y \in S : y <= x

\* C14: after any sequence of insert_block calls best_proposer() is a proposer
\* whose level is the greatest level of the stored proposer blocks, and the
\* insert of a block that does not raise that level (a later sibling at the
\* best level, a block below it) does not change best_proposer().
C14_BestProposer ==
    /\ [](db[PROPOSER_NODE_LEVEL_CF][best_proposer(db, proposer_best_level)]
              = Max({db[PROPOSER_NODE_LEVEL_CF][p] : p \in StoredProposers(db)}))
    /\ [][Max(ProposerLevels(db')) = Max(ProposerLevels(db))
              => best_proposer(db', proposer_best_level')
                     = best_proposer(db, proposer_best_level)]_vars

C14_Witness ==
    /\ last_call = "insert_block"
    /\ proposer_best_level >= 1
    /\ Len(db[PROPOSER_TREE_LEVEL_CF][proposer_best_level]) >= 2

\* the stored voter blocks of a chain
VotersOfChain(d, c) == {v \in StoredVoters(d) : d[VOTER_NODE_CHAIN_CF][v] = c}

\* C15: after any sequence of insert_block calls, for every chain c,
\* best_voter(c) is a stored voter block of chain c whose level is the
\* greatest level of the stored voter blocks of c, and the tip changes only to
\* a block of strictly greater level: a fork block of equal level never
\* replaces it.
C15_BestVoter ==
    /\ [](\A c \in Chains :
              /\ best_voter(voter_best, c) \in VotersOfChain(db, c)
              /\ db[VOTER_NODE_LEVEL_CF][best_voter(voter_best, c)] = voter_best[c][2]
              /\ voter_best[c][2]
                     = Max({db[VOTER_NODE_LEVEL_CF][v] : v \in VotersOfChain(db, c)}))
    /\ [][\A c \in Chains :
              best_voter(voter_best', c) /= best_voter(voter_best, c)
                  => voter_best'[c][2] > voter_best[c][2]]_vars

C15_Witness ==
    \E c \in Chains :
        /\ voter_best[c][2] >= 1
        /\ \E v \in VotersOfChain(db, c) :
               /\ v /= best_voter(voter_best, c)
               /\ db[VOTER_NODE_LEVEL_CF][v] = voter_best[c][2]

\* the stored proposer blocks of a level
ProposersAt(d, L) == {p \in StoredProposers(d) : d[PROPOSER_NODE_LEVEL_CF][p] = L}

\* list holds, level by level from lo + 1 to hi, a proposer of the level with
\* the greatest vote count, the smallest hash among those of that count
IsUnvotedList(d, list, lo, hi) ==
    /\ Len(list) = IF hi > lo THEN hi - lo ELSE 0
    /\ \A i \in 1..Len(list) :
           /\ list[i] \in ProposersAt(d, lo + i)
           /\ \A b \in ProposersAt(d, lo + i) :
                  \/ vote_count(d, b) < vote_count(d, list[i])
                  \/ vote_count(d, b) = vote_count(d, list[i]) /\ list[i] <= b

\* C16: unvoted_proposer(voter_tip, proposer_parent) returns, in ascending
\* level order, one hash for each level L with deepest_voted_level(voter_tip)
\* < L <= level(proposer_parent): the proposer of level L with the greatest
\* vote count, the smallest hash on a tie; the list is empty when there is no
\* such level.
C16_UnvotedProposer ==
    \A tip \in StoredVoters(db), proposer_parent \in StoredProposers(db) :
        IsUnvotedList(db, unvoted_proposer(db, tip, proposer_parent),
                      db[VOTER_NODE_VOTED_LEVEL_CF][tip],
                      db[PROPOSER_NODE_LEVEL_CF][proposer_parent])

C16_Witness ==
    /\ \E tip \in StoredVoters(db), proposer_parent \in StoredProposers(db) :
           /\ unvoted_proposer(db, tip, proposer_parent) /= <<>>
           /\ \E b \in ProposersAt(db, db[VOTER_NODE_VOTED_LEVEL_CF][tip] + 1) :
                  b < unvoted_proposer(db, tip, proposer_parent)[1]
    /\ \E tip \in StoredVoters(db) \ {voter_genesis[c] : c \in Chains} :
           unvoted_proposer(db, tip, best_proposer(db, proposer_best_level)) = <<>>

\* list holds every key of the map once, in non-decreasing order of the
\* timestamps stored with them
IsChronological(list, unreferred) ==
    /\ Range(list) = DOMAIN unreferred
    /\ Len(list) = Cardinality(DOMAIN unreferred)
    /\ \A i, j \in 1..Len(list) : i < j => unreferred[list[i]] <= unreferred[list[j]]

\* C17: unreferred_proposers() and unreferred_transactions() return every
\* hash of their set exactly once, in non-decreasing order of the timestamp
\* stored at insert time (0 for the genesis block).
C17_SortedByTimestamp ==
    /\ \A list \in sorted_by_timestamp(unreferred_proposers) :
           IsChronological(list, unreferred_proposers)
    /\ \A list \in sorted_by_timestamp(unreferred_transactions) :
           IsChronological(list, unreferred_transactions)
    /\ proposer_genesis \in DOMAIN unreferred_proposers
           => unreferred_proposers[proposer_genesis] = 0

C17_Witness ==
    /\ \E a, b \in DOMAIN unreferred_proposers :
           a < b /\ unreferred_proposers[a] > unreferred_proposers[b]
    /\ \E a, b \in DOMAIN unreferred_transactions :
           a < b /\ unreferred_transactions[a] > unreferred_transactions[b]

\* the value stored under the key in a column family of lists
stored_list(d, cf) == IF testkey \in DOMAIN d[cf] THEN d[cf][testkey] ELSE <<>>

\* the operations applied with a removal that keeps the order of the others
RECURSIVE ordered_merge(_, _)
ordered_merge(existing, operations) ==
    IF operations = <<>> THEN existing
    ELSE ordered_merge(
             IF operations[1][1]
             THEN IF contains(existing, <<operations[1][2], operations[1][3]>>)
                  THEN existing
                  ELSE Append(existing, <<operations[1][2], operations[1][3]>>)
             ELSE SelectSeq(existing,
                     LAMBDA e : e /= <<operations[1][2], operations[1][3]>>),
             Tail(operations))

\* C18: a vote-edit operand whose removals are of present entries leaves the
\* entries added and not removed afterwards in the order of their latest
\* insertion; removing an entry that is not the last one keeps the relative
\* order of the remaining entries.
C18_VoteMergeKeepsOrder ==
    [][(last_call' = "merge_cf" /\ ~aborted')
          => stored_list(db, PROPOSER_NODE_VOTE_CF)'
                 = ordered_merge(stored_list(db, PROPOSER_NODE_VOTE_CF),
                                 vote_wb'[1].value)]_vars

\* the entries stored are those added and not removed afterwards, each once,
\* and an entry removed can be inserted again
C18_VoteMergeEntries ==
    [][(last_call' = "merge_cf" /\ ~aborted')
          => /\ Range(stored_list(db, PROPOSER_NODE_VOTE_CF)')
                    = Range(ordered_merge(stored_list(db, PROPOSER_NODE_VOTE_CF),
                                          vote_wb'[1].value))
             /\ Len(stored_list(db, PROPOSER_NODE_VOTE_CF)')
                    = Cardinality(Range(stored_list(db, PROPOSER_NODE_VOTE_CF)'))]_vars

\* new is old followed by the hashes of op that old does not hold, each once,
\* in the order of their first occurrence in op
IsAppendUnique(old, op, new) ==
    /\ Len(new) >= Len(old)
    /\ SubSeq(new, 1, Len(old)) = old
    /\ Range(new) = Range(old) \cup Range(op)
    /\ Len(new) = Len(old) + Cardinality(Range(op) \ Range(old))
    /\ \A i, j \in (Len(old) + 1)..Len(new) :
           i < j => position(op, new[i]) < position(op, new[j])

\* C19: merging an operand list into a key of an append-unique column family
\* keeps the stored hashes in their order and appends, in operand order, only
\* the hashes not already present; merging a list whose hashes are all
\* present leaves the stored value unchanged.
C19_AppendUniqueMerge ==
    [][last_call' = "merge_cf"
          => /\ IsAppendUnique(stored_list(db, PARENT_NEIGHBOR_CF), vote_wb'[1].value,
                               stored_list(db, PARENT_NEIGHBOR_CF)')
             /\ Range(vote_wb'[1].value) \subseteq Range(stored_list(db, PARENT_NEIGHBOR_CF))
                    => stored_list(db, PARENT_NEIGHBOR_CF)'
                           = stored_list(db, PARENT_NEIGHBOR_CF)
             /\ h256_vec_append_merge(Some(stored_list(db, PARENT_NEIGHBOR_CF)'),
                                      vote_wb'[1].value)
                    = stored_list(db, PARENT_NEIGHBOR_CF)']_vars

\* the last operand held a hash stored before, away from the end of the list,
\* and a hash that now ends a list of four
C19_Witness ==
    /\ last_call = "merge_cf"
    /\ Len(vote_wb[1].value) = 2
    /\ Len(stored_list(db, PARENT_NEIGHBOR_CF)) = 4
    /\ stored_list(db, PARENT_NEIGHBOR_CF)[4] = vote_wb[1].value[2]
    /\ vote_wb[1].value[1] \in {stored_list(db, PARENT_NEIGHBOR_CF)[1],
                                stored_list(db, PARENT_NEIGHBOR_CF)[2]}

\* C20: when update_ledger refreshes the leader of a level it takes the
\* result of the confirmation rule with quantile_epsilon_confirm iff no leader
\* is recorded at the level before the call and with
\* quantile_epsilon_deconfirm iff one is: a recorded leader is removed or
\* replaced only when the deconfirm evaluation differs from it, and a level
\* without a leader gets one only from the confirm evaluation.
C20_QuantileHysteresis ==
    [][(last_call' = "update_ledger" /\ ~aborted' /\ inflight = {} /\ vars' /= vars)
          => \A L \in ProposerLevels(db) \ {0} :
                 /\ (is_some(leader_sequence(db, L))
                        /\ leader_sequence(db', L) /= leader_sequence(db, L))
                        => /\ L \in AffectedLevels
                           /\ proposer_leader(db', voter_best, L, quantile_epsilon_deconfirm)
                                  /= leader_sequence(db, L)
                           /\ leader_sequence(db', L) = proposer_leader(
                                  db', voter_best, L, quantile_epsilon_deconfirm)
                 /\ (is_some(leader_sequence(db, L)) /\ L \in AffectedLevels
                        /\ proposer_leader(db', voter_best, L, quantile_epsilon_deconfirm)
                               = leader_sequence(db, L))
                        => leader_sequence(db', L) = leader_sequence(db, L)
                 /\ (~is_some(leader_sequence(db, L)) /\ is_some(leader_sequence(db', L)))
                        => /\ L \in AffectedLevels
                           /\ leader_sequence(db', L) = proposer_leader(
                                  db', voter_best, L, quantile_epsilon_confirm)
                 /\ (~is_some(leader_sequence(db, L)) /\ L \in AffectedLevels
                        /\ proposer_leader(db', voter_best, L, quantile_epsilon_confirm)
                               = None)
                        => leader_sequence(db', L) = None]_vars

\* update_ledger has left a voted level without a leader although the
\* deconfirm quantile gives one: the confirm quantile decided
C20_Witness ==
    /\ update_ledger_returned
    /\ \E L \in ProposerLevels(db) \ {0} :
           /\ ~is_some(leader_sequence(db, L))
           /\ is_some(proposer_leader(db, voter_best, L, quantile_epsilon_deconfirm))
           /\ proposer_leader(db, voter_best, L, quantile_epsilon_confirm) = None

\* C21: for every voter_chains of 16 bits, proposer_leader returns no leader
\* when the votes cast on the level are at most 3 * voter_chains / 5, the
\* product taken without wrap-around.
C21_NoLeaderBelowThreshold ==
    (leader_call /= <<>> /\ ~aborted)
        => (leader_call[1].total_vote_count <= (leader_call[1].voter_chains * 3) \div 5
                => leader_call[1].new_leader = None)

\* the same while the triple of voter_chains fits in 16 bits
C21_NoLeaderBelowThresholdNoWrap ==
    (leader_call /= <<>> /\ ~aborted /\ ~threshold_overflows(leader_call[1].voter_chains))
        => (leader_call[1].total_vote_count <= (leader_call[1].voter_chains * 3) \div 5
                => leader_call[1].new_leader = None)

\* the index of the block of greatest lower bound, of the smaller hash among
\* those of the greatest
argmax_lcb(proposer_blocks, lcb) ==
    CHOOSE i \in 1..Len(lcb) :
        \A j \in 1..Len(lcb) :
            lcb[j] < lcb[i] \/ (lcb[j] = lcb[i] /\ proposer_blocks[i] <= proposer_blocks[j])

\* the candidate at index best stands against the votes that remain: its
\* bound exceeds them, and no other block reaches it with them, an equality
\* being lost to a block of smaller hash
stands(proposer_blocks, lcb, best, remaining) ==
    /\ lcb[best] > remaining
    /\ \A j \in 1..Len(lcb) \ {best} :
           \/ lcb[j] + remaining < lcb[best]
           \/ (lcb[j] + remaining = lcb[best] /\ proposer_blocks[best] < proposer_blocks[j])

\* the votes that no lower bound accounts for
remaining_of(call) == call.voter_chains * FP - SeqSum(call.votes_lcb)

\* C22: with lcb* the greatest lower bound of the level (the smaller hash on a
\* tie) and remaining = voter_chains - sum of the bounds, proposer_leader
\* returns the block of lcb* only if lcb* > remaining and every other block b
\* has lcb_b + remaining < lcb* (an equality decided for the smaller hash);
\* in every other case it returns no leader.
C22_LeaderConfirmedRule ==
    (leader_call /= <<>> /\ ~aborted
        /\ leader_call[1].total_vote_count > vote_threshold_of(leader_call[1].voter_chains))
        => leader_call[1].new_leader =
               IF stands(leader_call[1].proposer_blocks, leader_call[1].votes_lcb,
                         argmax_lcb(leader_call[1].proposer_blocks, leader_call[1].votes_lcb),
                         remaining_of(leader_call[1]))
               THEN Some(leader_call[1].proposer_blocks[
                        argmax_lcb(leader_call[1].proposer_blocks, leader_call[1].votes_lcb)])
               ELSE None

\* a leader returned although another block reaches its bound with the
\* remaining votes: the leader has the smaller hash
C22_Witness ==
    /\ leader_call /= <<>>
    /\ is_some(leader_call[1].new_leader)
    /\ remaining_of(leader_call[1]) > 0
    /\ \E j \in 1..Len(leader_call[1].votes_lcb) :
           /\ leader_call[1].proposer_blocks[j] /= unwrap(leader_call[1].new_leader)
           /\ leader_call[1].votes_lcb[j] + remaining_of(leader_call[1])
                  = leader_call[1].votes_lcb[argmax_lcb(leader_call[1].proposer_blocks,
                                                        leader_call[1].votes_lcb)]

\* the hashes named, in the column family cf, by the proposer blocks whose
\* insert_block has returned
ReferredByReturned(cf) ==
    UNION {Range(db[cf][p]) : p \in DOMAIN db[cf] \ InflightHashes}

\* the hashes of the calls of one content that are in flight
InflightOf(content) == {call.hash : call \in {c \in inflight : c.content = content}}

\* C23: in every interleaving of concurrent insert_block calls whose blocks
\* are delivered after the blocks they refer to are stored, a block is
\* marked unreferred before a referrer removes it: the two unreferred sets
\* hold the blocks marked so far less those named by a referrer that has
\* returned, and when no call is in flight they are the sets of a
\* sequential execution and hold no referenced block.
C23_UnreferredUnderInterleaving ==
    /\ [](/\ DOMAIN unreferred_proposers =
                 (StoredProposers(db) \cup InflightOf("Proposer"))
                     \ ReferredByReturned(PROPOSER_REF_NEIGHBOR_CF)
          /\ DOMAIN unreferred_transactions =
                 (StoredTransactions(db) \cup InflightOf("Transaction"))
                     \ ReferredByReturned(TRANSACTION_REF_NEIGHBOR_CF)
          /\ \A call \in inflight :
                 /\ call.content = "Proposer" =>
                        /\ {call.parent} \cup Range(call.proposer_refs) \subseteq StoredProposers(db)
                        /\ Range(call.transaction_refs) \subseteq StoredTransactions(db)
                 /\ (call.pc = "commit" /\ call.content = "Proposer")
                        => call.hash \in DOMAIN unreferred_proposers
                 /\ (call.pc = "commit" /\ call.content = "Transaction")
                        => call.hash \in DOMAIN unreferred_transactions
          /\ inflight = {} =>
                 /\ DOMAIN unreferred_proposers = StoredProposers(db) \ ReferredProposers(db)
                 /\ DOMAIN unreferred_transactions
                        = StoredTransactions(db) \ ReferredTransactions(db))
    /\ [][/\ DOMAIN unreferred_proposers \ DOMAIN unreferred_proposers'
                 \subseteq StoredProposers(db)
          /\ DOMAIN unreferred_transactions \ DOMAIN unreferred_transactions'
                 \subseteq StoredTransactions(db)]_vars

\* two calls in flight: a proposer block that is committed and has yet to
\* remove the transaction block and the proposer it refers to, and a block
\* that is marked unreferred and not yet committed
C23_Witness ==
    \E c1 \in inflight : \E c2 \in inflight :
        /\ c1.content = "Proposer" /\ c1.pc = "return"
        /\ c1.transaction_refs /= <<>>
        /\ Range(c1.transaction_refs) \subseteq DOMAIN unreferred_transactions
        /\ c1.parent \in DOMAIN unreferred_proposers
        /\ c2.pc = "commit"
        /\ c2.hash \in DOMAIN unreferred_proposers \cup DOMAIN unreferred_transactions

\* the store holds the level, chain, vote list and deepest voted level of
\* the voter block h
voter_metadata_committed(h) ==
    /\ h \in DOMAIN db[VOTER_NODE_LEVEL_CF]
    /\ h \in DOMAIN db[VOTER_NODE_CHAIN_CF]
    /\ h \in DOMAIN db[VOTE_NEIGHBOR_CF]
    /\ h \in DOMAIN db[VOTER_NODE_VOTED_LEVEL_CF]

\* the store holds the voter parent of h, a stored voter block
voter_parent_committed(h) ==
    /\ h \in DOMAIN db[VOTER_PARENT_NEIGHBOR_CF]
    /\ contains_voter(db, db[VOTER_PARENT_NEIGHBOR_CF][h])

\* C24 as claimed: in every interleaving of voter insert_block calls with
\* update_ledger, the hash of the best tip of every chain is a voter block
\* whose level, chain, voter parent, vote list and deepest voted level are
\* committed in the store, and the level of the tip is the stored level.
C24_BestTipFullyCommitted ==
    \A c \in Chains :
        /\ voter_metadata_committed(voter_best[c][1])
        /\ voter_parent_committed(voter_best[c][1])
        /\ db[VOTER_NODE_LEVEL_CF][voter_best[c][1]] = voter_best[c][2]
        /\ db[VOTER_NODE_CHAIN_CF][voter_best[c][1]] = c

\* C24 amended: the same, the voter parent being committed for every tip
\* other than the voter genesis block of the chain, which has none.
C24_BestTipCommitted ==
    \A c \in Chains :
        /\ voter_metadata_committed(voter_best[c][1])
        /\ voter_best[c][1] /= voter_genesis[c] => voter_parent_committed(voter_best[c][1])
        /\ voter_best[c][1] = voter_genesis[c]
               => voter_best[c][1] \notin DOMAIN db[VOTER_PARENT_NEIGHBOR_CF]
        /\ db[VOTER_NODE_LEVEL_CF][voter_best[c][1]] = voter_best[c][2]
        /\ db[VOTER_NODE_CHAIN_CF][voter_best[c][1]] = c

\* a voter block deeper than the tip of its chain is committed and not yet
\* the tip, the tip being a block inserted earlier, while another call has
\* not committed
C24_Witness ==
    \E c1 \in inflight : \E c2 \in inflight :
        /\ c1.content = "Voter" /\ c1.pc = "return"
        /\ c1.self_level > voter_best[c1.self_chain][2]
        /\ voter_best[c1.self_chain][1] /= voter_genesis[c1.self_chain]
        /\ c2.content = "Voter" /\ c2.pc = "commit"

\* ---------------------------------------------------------------------- C25
\* a vote_diff that has left its two loops: both sides are at the same block
vote_diff_returned == walk /= <<>> /\ walk[1].fn = "vote_diff" /\ walk[1].pc = "returned"

\* an update_ledger that has left its reconfirm loop, or has not entered it
ledger_loop_left == walk /= <<>> /\ walk[1].fn = "update_ledger" /\ walk[1].pc = "write"

stored_block(d, h) ==
    contains_proposer(d, h) \/ contains_voter(d, h) \/ contains_transaction(d, h)

\* the step in which the call leaves insert_block from its commit
commit_failed(call) == call \in inflight /\ call.pc = "commit" /\ inflight' = inflight \ {call}

\* C26: when the commit of the store inside insert_block fails, the call
\* returns the storage error, the store is as it was and holds nothing of
\* the block, the proposer best level and the voter best tips are as they
\* were and no entry leaves an unreferred set; the hash of a proposer block
\* stays in the unreferred proposers and in the unconfirmed proposers, the
\* hash of a transaction block stays in the unreferred transactions
C26_FailedCommit ==
    [][\A call \in inflight :
           commit_failed(call) =>
               /\ io_error' = Append(io_error, call)
               /\ db' = db
               /\ ~stored_block(db', call.hash)
               /\ proposer_best_level' = proposer_best_level
               /\ voter_best' = voter_best
               /\ DOMAIN unreferred_proposers \subseteq DOMAIN unreferred_proposers'
               /\ DOMAIN unreferred_transactions \subseteq DOMAIN unreferred_transactions'
               /\ call.content = "Proposer" =>
                      /\ call.hash \in DOMAIN unreferred_proposers'
                      /\ call.hash \in unconfirmed_proposers'
               /\ call.content = "Transaction" =>
                      call.hash \in DOMAIN unreferred_transactions']_vars

\* C26 witness: the commit of a proposer block that refers to an unreferred
\* proposer block and to an unreferred transaction block has failed; the
\* block is not stored, it is unreferred and unconfirmed, and what it refers
\* to is still unreferred
C26_Witness ==
    /\ io_error /= <<>>
    /\ io_error[1].content = "Proposer"
    /\ io_error[1].transaction_refs /= <<>>
    /\ ~stored_block(db, io_error[1].hash)
    /\ io_error[1].hash \in DOMAIN unreferred_proposers
    /\ io_error[1].hash \in unconfirmed_proposers
    /\ io_error[1].parent \in DOMAIN unreferred_proposers
    /\ Range(io_error[1].transaction_refs) \subseteq DOMAIN unreferred_transactions

confirmed_below(d, L) ==
    \E K \in 0..(L - 1) :
        contains(d[PROPOSER_LEDGER_ORDER_CF][K], d[PROPOSER_LEADER_SEQUENCE_CF][L])

RECURSIVE post_order(_, _, _, _)
RECURSIVE post_order_refs(_, _, _, _)
post_order(refs, unconfirmed, h, visited) ==
    IF h \notin unconfirmed \/ contains(visited, h) THEN visited
    ELSE Append(post_order_refs(refs, unconfirmed, refs[h], visited), h)

post_order_refs(refs, unconfirmed, list, visited) ==
    IF list = <<>> THEN visited
    ELSE post_order_refs(refs, unconfirmed, Tail(list),
                         post_order(refs, unconfirmed, list[1], visited))

\* the order of a level was computed on a graph given as such
level_order_called == walk /= <<>> /\ walk[1].fn = "level_order"

\* every block of the list comes after the blocks it refers to
AfterRefs(d, list) ==
    \A i \in 1..Len(list) :
        \A r \in Range(d[PROPOSER_REF_NEIGHBOR_CF][list[i]]) :
            \E j \in 1..(i - 1) : list[j] = r

\* C28: the order that the traverse (a block is pushed on the order when it
\* is popped, its refs are pushed on the stack), the reversal and the filter
\* that keeps the first copy give for a level is the recursive depth-first
\* post-order from the leader that visits the refs in stored order, the
\* parent first, and skips the confirmed blocks; and in the ledger that
\* update_ledger leaves, every block comes after its parent and after every
\* block of its proposer-ref list
C28_PostOrder ==
    /\ level_order_called =>
           walk[1].order = post_order(walk[1].refs, walk[1].unconfirmed, walk[1].leader, <<>>)
    /\ update_ledger_returned => AfterRefs(db, Ledger(db, proposer_ledger_tip))

\* C28 witness: a block is reached on two paths from the leader and is
\* pushed on the order twice; the filter keeps one copy
C28_Witness ==
    /\ level_order_called
    /\ Len(traverse([db EXCEPT ![PROPOSER_REF_NEIGHBOR_CF] = walk[1].refs],
                    walk[1].unconfirmed, <<walk[1].leader>>, <<>>)) > Len(walk[1].order)
    /\ Len(walk[1].order) >= 3

\* ---------------------------------------------------------------------- C29
\* the transaction sequence of the ledger: the transaction refs of the
\* blocks of the ledger order, the levels ascending
TxLedger(d, tip) == transaction_blocks_of(d, Ledger(d, tip))

IsSuffix(a, b) == Len(a) <= Len(b) /\ SubSeq(b, Len(b) - Len(a) + 1, Len(b)) = a

\* the levels whose leader the step changes, and the first of them
ChangedLevels ==
    {L \in DOMAIN db[PROPOSER_LEADER_SEQUENCE_CF] \cup DOMAIN db'[PROPOSER_LEADER_SEQUENCE_CF] :
        leader_sequence(db, L) /= leader_sequence(db', L)}

FirstChanged == CHOOSE L \in ChangedLevels : \A K \in ChangedLevels : L <= K

\* the entries of the ledger order of the levels from..tip, ascending
EntriesFrom(d, from, tip) ==
    Concat([i \in 1..(IF from <= tip THEN tip + 1 - from ELSE 0) |->
               d[PROPOSER_LEDGER_ORDER_CF][from + i - 1]])

\* C29: with S the transaction sequence of the ledger before a call of
\* update_ledger and S' the one after it, the removed list the call returns
\* is a suffix of S, the added list is a suffix of S', and S' is S with that
\* suffix taken off and the added list appended; the removed list is the
\* transaction refs of the old entries of the levels from the first level
\* whose leader changed to the old ledger tip
C29_ReplayEquivalence ==
    [][(last_call' = "update_ledger" /\ ~aborted') =>
           /\ IsSuffix(ret'[2], TxLedger(db, proposer_ledger_tip))
           /\ IsSuffix(ret'[1], TxLedger(db', proposer_ledger_tip'))
           /\ TxLedger(db', proposer_ledger_tip')
                  = SubSeq(TxLedger(db, proposer_ledger_tip), 1,
                           Len(TxLedger(db, proposer_ledger_tip)) - Len(ret'[2])) \o ret'[1]
           /\ ret'[2] = IF ChangedLevels = {} THEN <<>>
                        ELSE transaction_blocks_of(
                                 db, EntriesFrom(db, FirstChanged, proposer_ledger_tip))]_vars

\* C29 witness: update_ledger has taken back a level whose blocks refer to
\* transaction blocks, after a call that had added them
C29_Witness ==
    /\ update_ledger_returned
    /\ ret[2] /= <<>>
    /\ TxLedger(db, proposer_ledger_tip) = <<>>

\* ---------------------------------------------------------------------- C30
\* a voter block and the blocks below it on its chain
RECURSIVE VoterAncestors(_, _)
VoterAncestors(d, v) ==
    IF v \in DOMAIN d[VOTER_PARENT_NEIGHBOR_CF]
    THEN {v} \cup VoterAncestors(d, d[VOTER_PARENT_NEIGHBOR_CF][v])
    ELSE {v}

\* the lowest common ancestor of two voter blocks of one chain: the deepest
\* block below both
CommonAncestor(d, a, b) ==
    CHOOSE v \in VoterAncestors(d, a) \cap VoterAncestors(d, b) :
        \A u \in VoterAncestors(d, a) \cap VoterAncestors(d, b) :
            d[VOTER_NODE_LEVEL_CF][u] <= d[VOTER_NODE_LEVEL_CF][v]

\* the votes of the blocks on the path from v down to, and excluding, the
\* ancestor, each with the stored level of the voter block that cast it
RECURSIVE PathVotes(_, _, _)
PathVotes(d, v, ancestor) ==
    IF v = ancestor THEN <<>>
    ELSE [i \in 1..Len(d[VOTE_NEIGHBOR_CF][v]) |->
             <<d[VOTE_NEIGHBOR_CF][v][i], d[VOTER_NODE_LEVEL_CF][v]>>]
         \o PathVotes(d, d[VOTER_PARENT_NEIGHBOR_CF][v], ancestor)

\* C30: for two voter blocks from and to of one chain, vote_diff(from, to)
\* returns as removed the votes of the blocks on the path from `from` down
\* to, and excluding, their lowest common ancestor, as added those of the
\* path from `to` down to, and excluding, that ancestor, each vote with the
\* level of the voter block that cast it; both lists are empty when from is
\* to; and when update_ledger has read the best blocks, the voter ledger tip
\* of every chain is the best block of the chain
C30_VoteDiffPaths ==
    /\ vote_diff_returned =>
           /\ walk[1].to = CommonAncestor(db, walk[1].args[1], walk[1].args[2])
           /\ walk[1].removed_votes
                  = PathVotes(db, walk[1].args[1],
                              CommonAncestor(db, walk[1].args[1], walk[1].args[2]))
           /\ walk[1].added_votes
                  = PathVotes(db, walk[1].args[2],
                              CommonAncestor(db, walk[1].args[1], walk[1].args[2]))
           /\ walk[1].args[1] = walk[1].args[2]
                  => walk[1].added_votes = <<>> /\ walk[1].removed_votes = <<>>
    /\ (update_ledger_returned \/ (walk /= <<>> /\ walk[1].fn = "update_ledger"))
           => \A c \in Chains : voter_ledger_tips[c] = voter_best[c][1]

\* C30 witness: vote_diff has returned for two blocks on two branches of a
\* chain that part above the genesis block of the chain, with votes on both
C30_Witness ==
    /\ vote_diff_returned
    /\ walk[1].added_votes /= <<>>
    /\ walk[1].removed_votes /= <<>>
    /\ walk[1].to \in DOMAIN db[VOTER_PARENT_NEIGHBOR_CF]

\* ---------------------------------------------------------------------- C31
\* the voter blocks on the path from the best block of chain c back to the
\* voter genesis block of the chain that stand at level l
BestPathAt(d, vbest, c, l) ==
    {v \in VoterAncestors(d, vbest[c][1]) : d[VOTER_NODE_LEVEL_CF][v] = l}

\* the levels a voter block can stand at
VoterLevels(d) == {d[VOTER_NODE_LEVEL_CF][v] : v \in StoredVoters(d)}

\* C31: after update_ledger has returned, with no insert in between, for
\* every proposer p, chain c and level l, (c, l) is in the main chain votes
\* of p exactly when the voter block at level l on the path from the best
\* voter block of chain c back to the voter genesis block of the chain lists
\* p in its votes
C31_MainChainVotes ==
    update_ledger_returned =>
        \A p \in StoredProposers(db), c \in Chains, l \in VoterLevels(db) :
            contains(main_chain_votes(db, p), <<c, l>>)
                <=> \E v \in BestPathAt(db, voter_best, c, l) :
                        contains(db[VOTE_NEIGHBOR_CF][v], p)

\* C31 witness: update_ledger has returned after a reorg in which the old
\* and the new block of a level vote for the same proposer: its vote edits
\* remove and add the same entry of that proposer
C31_Witness ==
    /\ update_ledger_returned
    /\ \E i, j \in 1..Len(vote_wb) :
           /\ vote_wb[i].key = vote_wb[j].key
           /\ vote_wb[i].value[1][1] = FALSE
           /\ vote_wb[j].value[1][1] = TRUE
           /\ vote_wb[i].value[1][2] = vote_wb[j].value[1][2]
           /\ vote_wb[i].value[1][3] = vote_wb[j].value[1][3]
           /\ contains(main_chain_votes(db, vote_wb[i].key),
                       <<vote_wb[i].value[1][2], vote_wb[i].value[1][3]>>)

\* ---------------------------------------------------------------------- C32
\* C32: after update_ledger has returned, proposer_ledger_tip is the greatest
\* level T such that a leader is recorded at every level 0..T, so no leader
\* is recorded at T + 1, and ledger_order holds an entry for exactly the
\* levels 0..T, whatever leaders are recorded at higher levels
C32_TipIsLastLeaderLevel ==
    update_ledger_returned =>
        /\ \A L \in 0..proposer_ledger_tip : is_some(leader_sequence(db, L))
        /\ ~is_some(leader_sequence(db, proposer_ledger_tip + 1))
        /\ DOMAIN db[PROPOSER_LEDGER_ORDER_CF] = 0..proposer_ledger_tip

\* C32 witness: update_ledger has returned with a leader recorded two levels
\* above the ledger tip and none at the level between
C32_Witness ==
    /\ update_ledger_returned
    /\ is_some(leader_sequence(db, proposer_ledger_tip + 2))
    /\ ~is_some(leader_sequence(db, proposer_ledger_tip + 1))
    /\ DOMAIN db[PROPOSER_LEDGER_ORDER_CF] = 0..proposer_ledger_tip

\* ---------------------------------------------------------------------- C34
\* the levels of the proposer blocks committed to the store
CommittedProposerLevels(d) == {d[PROPOSER_NODE_LEVEL_CF][h] : h \in StoredProposers(d)}

\* C34: in every interleaving of concurrent proposer insert_block calls,
\* whenever the guard of the proposer best level is free, the proposer best
\* level is the greatest level of the proposer blocks committed to the store,
\* and it never decreases
C34_BestLevelIsMaxCommitted ==
    /\ [](proposer_best_level = Max(CommittedProposerLevels(db)))
    /\ [][proposer_best_level' >= proposer_best_level]_vars

\* C34 witness: two concurrent calls have committed blocks of different
\* levels and neither has returned
C34_Witness ==
    /\ \E c1, c2 \in inflight :
           /\ c1.pc = "return" /\ c2.pc = "return"
           /\ c1.self_level < c2.self_level
    /\ proposer_best_level = Max(CommittedProposerLevels(db))

\* ---------------------------------------------------------------------- C33
\* the places of the ledger order that hold the hash
LedgerPlaces(d, h) ==
    {<<L, i>> \in UNION {{L} \X (1..Len(d[PROPOSER_LEDGER_ORDER_CF][L])) :
                             L \in DOMAIN d[PROPOSER_LEDGER_ORDER_CF]} :
        d[PROPOSER_LEDGER_ORDER_CF][L][i] = h}

\* C33: in every interleaving of proposer insert_block calls with
\* update_ledger, whenever the guard of the unconfirmed proposers is free,
\* every proposer hash committed to the store is in the unconfirmed set or in
\* exactly one ledger_order entry, so the traverse from a leader never skips
\* a committed block that is not in the ledger
C33_UnconfirmedOrInLedger ==
    (~aborted /\ ~ledger_guards_held) =>
        \A h \in StoredProposers(db) :
            \/ h \in unconfirmed_proposers /\ LedgerPlaces(db, h) = {}
            \/ h \notin unconfirmed_proposers /\ Cardinality(LedgerPlaces(db, h)) = 1

\* C33 witness: update_ledger has returned while a proposer insert_block
\* call is between its commit and its return, and the block of that call is
\* in the ledger, as a leader or referred to by one
C33_Witness ==
    /\ walk = <<>>
    /\ last_call = "update_ledger"
    /\ \E call \in inflight :
           /\ call.content = "Proposer"
           /\ call.pc = "return"
           /\ Cardinality(LedgerPlaces(db, call.hash)) = 1
           /\ call.hash \notin unconfirmed_proposers

\* ---------------------------------------------------------------------- C35
\* C35: in every interleaving of proposer_leaders() with update_ledger, the
\* snapshot that proposer_leaders() reads under the guard of the ledger tip
\* holds a leader for every level 0..=proposer_ledger_tip: the call does not
\* reach unreachable!() and returns proposer_ledger_tip + 1 leaders
C35_LeadersSnapshotComplete ==
    leaders_read /= <<>> =>
        /\ ~leaders_read[1].unreachable
        /\ Len(leaders_read[1].leaders) = leaders_read[1].tip + 1

\* the same statement for the calls made while update_ledger is not between
\* the commit of its leaders and its return
C35_LeadersCompleteOutsideLedgerPhase ==
    [][(leaders_read' /= leaders_read /\ ~ledger_call_at("ledger"))
           => /\ ~leaders_read'[1].unreachable
              /\ Len(leaders_read'[1].leaders) = leaders_read'[1].tip + 1]_vars

\* ---------------------------------------------------------------------- C36
\* the thread is at a lock() of a guard that some thread holds
Waiting(t) ==
    /\ threads[t].rest /= <<>>
    /\ threads[t].rest[1].op = "lock"
    /\ threads[t].rest[1].guard \in HeldGuards

\* the thread that holds the guard
Holder(guard) == CHOOSE u \in GuardThreads : guard \in threads[u].held

\* the thread waits for a thread that waits, n times over: with n the number
\* of threads, the chain of waits has closed on itself
RECURSIVE WaitsForever(_, _)
WaitsForever(t, n) ==
    Waiting(t) /\ (n = 0 \/ WaitsForever(Holder(threads[t].rest[1].guard), n - 1))

\* the pairs (held, taken) of the guards a call takes while it holds another
RECURSIVE NestedPairs(_, _)
NestedPairs(guards, held) ==
    IF guards = <<>> THEN {}
    ELSE IF guards[1].op = "lock"
    THEN {<<g, guards[1].guard>> : g \in held}
         \cup NestedPairs(Tail(guards), held \cup {guards[1].guard})
    ELSE NestedPairs(Tail(guards), held \ {guards[1].guard})

\* the order in which nested guards are taken, over all calls
AcquisitionOrder ==
    UNION {NestedPairs(guards, {}) : guards \in update_ledger_guards}
    \cup UNION {NestedPairs(call[2], {}) : call \in GuardCalls}

Guards == {g[1] : g \in AcquisitionOrder} \cup {g[2] : g \in AcquisitionOrder}

\* the pairs joined by a path of the order of at most two, four, eight steps
Joined(R) == R \cup {<<a, c>> \in Guards \X Guards : \E b \in Guards : <<a, b>> \in R /\ <<b, c>> \in R}
AcquisitionPaths == Joined(Joined(Joined(AcquisitionOrder)))

\* no guard is taken, directly or through others, while it is held
AcquisitionOrderAcyclic == \A g \in Guards : <<g, g>> \notin AcquisitionPaths

\* C36: no interleaving of concurrent insert_block calls, one update_ledger
\* thread and the queries reaches a deadlock on the guards: no thread waits
\* for a guard in a chain of waits that closes on itself, and the order in
\* which nested guards are taken has no cycle
C36_NoDeadlock ==
    /\ \A t \in GuardThreads : ~WaitsForever(t, MaxGuardThreads)
    /\ AcquisitionOrderAcyclic

\* C36 witness: update_ledger holds the guards of the ledger tip and of the
\* unconfirmed proposers, lagging_level() holds the guard of the proposer
\* best level and waits for the ledger tip, a third thread waits for the
\* proposer best level
C36_Witness ==
    /\ threads[1].held = {proposer_ledger_tip_guard, unconfirmed_proposers_guard}
    /\ \E t, u \in GuardThreads \ {1} :
           /\ threads[t].fn = "lagging_level"
           /\ threads[t].held = {proposer_best_level_guard}
           /\ Waiting(t)
           /\ Waiting(u)
           /\ threads[u].rest[1].guard = proposer_best_level_guard

\* ---------------------------------------------------------------------- C37
\* the column families of the attributes of a node and of its neighbor lists
NodeAttributeCfs ==
    {PROPOSER_NODE_LEVEL_CF, VOTER_NODE_LEVEL_CF, VOTER_NODE_CHAIN_CF,
     VOTER_NODE_VOTED_LEVEL_CF}
NeighborCfs ==
    {PARENT_NEIGHBOR_CF, VOTE_NEIGHBOR_CF, VOTER_PARENT_NEIGHBOR_CF,
     TRANSACTION_REF_NEIGHBOR_CF, PROPOSER_REF_NEIGHBOR_CF}

\* every entry of the column family is as it was
entries_kept(cf) ==
    \A key \in DOMAIN db[cf] : key \in DOMAIN db'[cf] /\ db'[cf][key] = db[cf][key]

\* the step is a call of insert_block, of update_ledger (every step of Spec
\* is a whole call and sets last_call)
insert_block_step == last_call' = "insert_block" /\ NumInserted(db') = NumInserted(db) + 1
update_ledger_step == last_call' = "update_ledger" /\ NumInserted(db') = NumInserted(db)

\* C37: insert_block of any block kind leaves leader_sequence, ledger_order,
\* proposer_ledger_tip, voter_ledger_tips and the main chain votes of every
\* proposer unchanged and never changes the level, chain, parent or neighbor
\* lists of an already inserted node; update_ledger leaves node attributes,
\* neighbor lists, vote counts, both unreferred sets, the proposer best level
\* and the voter best tips unchanged
C37_Frame ==
    [][/\ insert_block_step \/ update_ledger_step
       /\ insert_block_step =>
              /\ db'[PROPOSER_LEADER_SEQUENCE_CF] = db[PROPOSER_LEADER_SEQUENCE_CF]
              /\ db'[PROPOSER_LEDGER_ORDER_CF] = db[PROPOSER_LEDGER_ORDER_CF]
              /\ proposer_ledger_tip' = proposer_ledger_tip
              /\ voter_ledger_tips' = voter_ledger_tips
              /\ db'[PROPOSER_NODE_VOTE_CF] = db[PROPOSER_NODE_VOTE_CF]
              /\ \A cf \in NodeAttributeCfs \cup NeighborCfs : entries_kept(cf)
       /\ update_ledger_step =>
              /\ \A cf \in NodeAttributeCfs \cup NeighborCfs \cup {PROPOSER_VOTE_COUNT_CF} :
                     db'[cf] = db[cf]
              /\ unreferred_proposers' = unreferred_proposers
              /\ unreferred_transactions' = unreferred_transactions
              /\ proposer_best_level' = proposer_best_level
              /\ voter_best' = voter_best]_vars

\* C37 witness: update_ledger has confirmed a leader above the genesis level
\* and recorded main chain votes, and a voter block inserted after it has
\* moved the best tip of its chain past the voter ledger tip
C37_Witness ==
    /\ last_call = "insert_block"
    /\ proposer_ledger_tip >= 1
    /\ \E p \in StoredProposers(db) :
           /\ p /= proposer_genesis
           /\ p \in DOMAIN db[PROPOSER_NODE_VOTE_CF]
           /\ db[PROPOSER_NODE_VOTE_CF][p] /= <<>>
    /\ \E c \in Chains : voter_best[c][1] /= voter_ledger_tips[c]

\* ---------------------------------------------------------------------- C38
\* the batch of vote edits that update_ledger builds when it is called in
\* this state
next_vote_batch == vote_phase(db, voter_best, 0, voter_ledger_tips, <<>>, empty_range).wb

\* the remove operations (false, c, l) of a batch of vote edits
remove_operations(wb) ==
    UNION {{<<wb[i].key, wb[i].value[j]>> :
               j \in {x \in 1..Len(wb[i].value) : ~wb[i].value[x][1]}} :
              i \in {x \in 1..Len(wb) : wb[x].cf = PROPOSER_NODE_VOTE_CF}}

\* C38: for any sequence of inserts of validated blocks and of update_ledger
\* calls of a single updater, every remove operand (false, c, l) that
\* update_ledger merges into the main chain votes of a proposer targets an
\* entry that is present when the merge is applied: the unreachable!() branch
\* of the full merge is not reached, no call has aborted
C38_RemoveTargetsPresent ==
    /\ ~aborted
    /\ ~write_unreachable(db, next_vote_batch)

\* C38 witness: update_ledger has returned from a call that merged a remove
\* operand, the vote is no longer in the list of the proposer
C38_Witness ==
    /\ update_ledger_returned
    /\ \E e \in remove_operations(vote_wb) :
           ~contains(db[PROPOSER_NODE_VOTE_CF][e[1]], <<e[2][2], e[2][3]>>)

\* ---------------------------------------------------------------------- C39
\* the depth of the recorded vote can be computed: the vote is not above the
\* best level of its chain and num_voter_blocks finds the count of every level
\* from the vote to the best level
depth_computable(d, vbest, vote) ==
    /\ vote[2] <= vbest[vote[1]][2]
    /\ \A l \in vote[2]..vbest[vote[1]][2] :
           is_some(get_pinned_cf(d, VOTER_TREE_LEVEL_COUNT_CF, <<vote[1], l>>))

\* C39: in every interleaving of update_ledger with concurrent voter
\* insert_block calls, whenever proposer_leader computes the depth
\* best_level(c) - l + 1 of a recorded main chain vote (c, l), l is at most
\* best_level(c) and a voter tree level count exists for every level of
\* chain c from l to best_level(c), although the best level is read later
\* than the tip of the vote diff; it holds of every recorded vote in every
\* state
C39_VoteDepthComputable ==
    \A p \in DOMAIN db[PROPOSER_NODE_VOTE_CF] :
        \A i \in 1..Len(db[PROPOSER_NODE_VOTE_CF][p]) :
            depth_computable(db, voter_best, db[PROPOSER_NODE_VOTE_CF][p][i])

\* C39 witness: update_ledger is in its loop over the levels of the affected
\* range, a proposer block of the level at hand has a recorded vote of a
\* chain whose best block is by now deeper than the tip the votes were
\* diffed to
C39_Witness ==
    /\ ledger_call_at("leaders")
    /\ walk[1].level < walk[1].range.end
    /\ \E p \in Range(db[PROPOSER_TREE_LEVEL_CF][walk[1].level]) :
           \E i \in 1..Len(main_chain_votes(db, p)) :
               voter_best[main_chain_votes(db, p)[i][1]][2]
                   > db[VOTER_NODE_LEVEL_CF][voter_ledger_tips[main_chain_votes(db, p)[i][1]]]

\* ---------------------------------------------------------------------- C40
\* the step is a call of update_ledger that found a vote added or removed
votes_changed == last_call' = "update_ledger" /\ ~aborted' /\ vote_wb' /= <<>>

\* the levels of the proposer blocks whose main chain votes the call edits
VoteEditLevels == {db[PROPOSER_NODE_LEVEL_CF][vote_wb'[i].key] : i \in 1..Len(vote_wb')}

\* from the lowest affected level or the ledger tip + 1, whichever is
\* smaller, to the highest affected level
RefreshedLevels ==
    {L \in ProposerLevels(db) :
        /\ \/ proposer_ledger_tip + 1 <= L
           \/ \E K \in VoteEditLevels : K <= L
        /\ \E K \in VoteEditLevels : L <= K}

\* the proposer blocks reached from the blocks of S through at most n refs
RECURSIVE RefClosure(_, _, _)
RefClosure(d, S, n) ==
    IF n = 0 THEN S
    ELSE RefClosure(d,
                    S \cup UNION {Range(d[PROPOSER_REF_NEIGHBOR_CF][h]) :
                                     h \in S \cap DOMAIN d[PROPOSER_REF_NEIGHBOR_CF]},
                    n - 1)

\* the blocks of the ledger order entries of the levels below L
LedgerBelow(d, L) ==
    UNION {Range(d[PROPOSER_LEDGER_ORDER_CF][K]) :
              K \in {x \in DOMAIN d[PROPOSER_LEDGER_ORDER_CF] : x < L}}

\* the ledger of d is built anew from the level on, up to the last level of
\* an unbroken run of leaders: each entry holds what its leader reaches and
\* no lower entry holds
RebuiltFrom(d, tip, level) ==
    /\ tip >= level - 1
    /\ \A L \in level..tip : is_some(leader_sequence(d, L))
    /\ ~is_some(leader_sequence(d, tip + 1))
    /\ DOMAIN d[PROPOSER_LEDGER_ORDER_CF] = 0..tip
    /\ \A L \in level..tip :
           /\ NoRepeat(d[PROPOSER_LEDGER_ORDER_CF][L])
           /\ Range(d[PROPOSER_LEDGER_ORDER_CF][L])
                  = RefClosure(d, {unwrap(leader_sequence(d, L))}, MaxProposers)
                        \ LedgerBelow(d, L)

\* C40: when update_ledger finds at least one vote added or removed, it
\* refreshes the leader of every level from min(lowest affected proposer
\* level, proposer_ledger_tip + 1) up to the highest affected proposer level
\* and of no other level, and rebuilds the ledger from the lowest level whose
\* leader changed; every level below the first changed level keeps its
\* ledger_order entry, and with no leader changed the ledger is as it was
C40_RefreshAndRebuild ==
    [][votes_changed =>
           /\ \A L \in ProposerLevels(db) :
                  leader_sequence(db', L) =
                      IF L \in RefreshedLevels
                      THEN new_leader_of(write(db, vote_wb'), voter_best, L)
                      ELSE leader_sequence(db, L)
           /\ ChangedLevels = {} =>
                  /\ db'[PROPOSER_LEDGER_ORDER_CF] = db[PROPOSER_LEDGER_ORDER_CF]
                  /\ proposer_ledger_tip' = proposer_ledger_tip
           /\ ChangedLevels /= {} =>
                  /\ \A L \in 0..(FirstChanged - 1) :
                         get_pinned_cf(db', PROPOSER_LEDGER_ORDER_CF, L)
                             = get_pinned_cf(db, PROPOSER_LEDGER_ORDER_CF, L)
                  /\ IF FirstChanged <= proposer_ledger_tip + 1
                     THEN RebuiltFrom(db', proposer_ledger_tip', FirstChanged)
                     ELSE /\ db'[PROPOSER_LEDGER_ORDER_CF] = db[PROPOSER_LEDGER_ORDER_CF]
                          /\ proposer_ledger_tip' = proposer_ledger_tip]_vars

\* C40 witness: the call has edited votes of level 2 alone and the ledger tip
\* is 0, as it was before the call: the levels 1 and 2 were refreshed, the
\* votes cast on level 1 confirm no leader and the ledger is as it was
C40_Witness ==
    /\ update_ledger_returned
    /\ vote_wb /= <<>>
    /\ \A i \in 1..Len(vote_wb) : db[PROPOSER_NODE_LEVEL_CF][vote_wb[i].key] = 2
    /\ proposer_ledger_tip = 0
    /\ ~is_some(leader_sequence(db, 1))
    /\ level_votes(db, db[PROPOSER_TREE_LEVEL_CF][1]) /= <<>>

====
